---- MODULE Spec2Model ----
(***************************************************************************)
(* A model of dlls/dbghelp/dwarf.c, the DWARF 2 reader of dbghelp.         *)
(*                                                                         *)
(* The reader is a stack of layers; each layer has a specification of its  *)
(* own over the variables it owns (the other layers' variables stay at     *)
(* their initial value):                                                   *)
(*   SpecLeb    the byte cursor's LEB128 readers                           *)
(*   SpecAttr   dwarf2_find_attribute over one entry                       *)
(*   SpecLoc    dwarf2_compute_location over one location expression       *)
(*   SpecSym    the symbol builder (dwarf2_load_one_entry and the          *)
(*              dwarf2_parse_* functions) over one unit's entry tree       *)
(*   SpecLine   dwarf2_parse_line_numbers                                  *)
(*   SpecDrv    dwarf2_parse / dwarf2_parse_compilation_unit               *)
(*                                                                         *)
(* The target is the i386 build the code is written for: unsigned long,    *)
(* long, int and pointers are 32 bits wide (dwarf2_get_u4 reads an         *)
(* unsigned long).  A 32-bit value is a record [hi, lo] of two 16-bit      *)
(* halves, so that every value of the type has a representation.           *)
(***************************************************************************)
EXTENDS Integers, Sequences, FiniteSets, TLC

(***************************************************************************)
(* 32-bit machine words                                                    *)
(***************************************************************************)
Half == 256 * 256

W32(h, l) == [hi |-> h, lo |-> l]

\* a small natural number as an unsigned long
U32(n) == W32(n \div Half, n % Half)

Zero32 == W32(0, 0)

RECURSIVE Pow2(_)
Pow2(n) == IF n = 0 THEN 1 ELSE 2 * Pow2(n - 1)

\* bitwise or of two naturals
RECURSIVE BitOr(_, _)
BitOr(a, b) ==
    IF a = 0 THEN b
    ELSE IF b = 0 THEN a
    ELSE (IF a % 2 = 1 \/ b % 2 = 1 THEN 1 ELSE 0) + 2 * BitOr(a \div 2, b \div 2)

or32(a, b) == W32(BitOr(a.hi, b.hi), BitOr(a.lo, b.lo))

\* a << n on 32 bits, the bits shifted out dropped; n < 32
shl32(a, n) ==
    IF n >= 16
    THEN W32((a.lo * Pow2(n - 16)) % Half, 0)
    ELSE W32((a.hi * Pow2(n) + (a.lo * Pow2(n)) \div Half) % Half,
             (a.lo * Pow2(n)) % Half)

\* a >> n (logical); n < 16
shr32(a, n) ==
    W32(a.hi \div Pow2(n),
        (a.lo \div Pow2(n)) + (a.hi % Pow2(n)) * Pow2(16 - n))

\* two's complement negation
neg32(a) ==
    W32((Half - 1 - a.hi + (IF a.lo = 0 THEN 1 ELSE 0)) % Half,
        (Half - a.lo) % Half)

\* a + b modulo 2^32
add32(a, b) ==
    W32((a.hi + b.hi + (a.lo + b.lo) \div Half) % Half, (a.lo + b.lo) % Half)

\* a - b modulo 2^32
sub32(a, b) == add32(a, neg32(b))

lt32(a, b) == a.hi < b.hi \/ (a.hi = b.hi /\ a.lo < b.lo)

\* the value of a word read as a long (two's complement)
Signed32(a) ==
    IF a.hi >= Half \div 2 THEN (a.hi - Half) * Half + a.lo ELSE a.hi * Half + a.lo

\* a long as a word
FromSigned32(v) == W32((v \div Half) % Half, v % Half)

(***************************************************************************)
(* Byte cursor.  A pointer into a section is the sequence of the bytes     *)
(* from the pointed-to byte on; p + n is the sequence without its first n  *)
(* bytes.                                                                  *)
(***************************************************************************)
Byte == 0..255

Advance(ptr, n) == SubSeq(ptr, n + 1, Len(ptr))

dwarf2_get_byte(ptr) == ptr[1]

dwarf2_get_u2(ptr) == ptr[1] + 256 * ptr[2]

dwarf2_get_u4(ptr) == W32(ptr[3] + 256 * ptr[4], ptr[1] + 256 * ptr[2])

\* (byte & 0x7f) << shift: an int shifted left, converted to unsigned long.
\* The bits that do not fit are dropped (the shift is undefined in C from a
\* shift count of 32 on: no input of the model has a varint of 6 bytes).
LebGroupMut(byte, shift) == shl32(U32(byte), shift)

LebGroup(byte, shift) == shl32(U32(byte % 128), shift)

\* the do/while loop of both readers: i bytes are consumed so far
RECURSIVE LebLoop(_, _, _, _)
LebLoop(ptr, i, ret, shift) ==
    LET While(byte, r) ==
            IF byte >= 128
            THEN LebLoop(ptr, i + 1, r, shift + 7)
            ELSE [ret |-> r, shift |-> shift + 7, byte |-> byte, end |-> i + 1]
        Do(byte) == While(byte, or32(ret, LebGroup(byte, shift)))
    IN  Do(dwarf2_get_byte(Advance(ptr, i)))

\* returns the value and, as end, the number of bytes ptr was advanced by
dwarf2_get_leb128_as_unsigned(ptr) ==
    LET Result(l) == [ret |-> l.ret, end |-> l.end]
    IN  Result(LebLoop(ptr, 0, Zero32, 0))

\* sizeof(int) * 8
IntBits == 32

LebSignExtendMut(l) ==
    IF (l.byte \div 64) % 2 = 1
    THEN or32(l.ret, neg32(shl32(U32(1), l.shift % 32)))
    ELSE l.ret

LebSignExtend(l) ==
    IF l.shift < IntBits /\ (l.byte \div 64) % 2 = 1
    THEN or32(l.ret, neg32(shl32(U32(1), l.shift)))
    ELSE l.ret

dwarf2_get_leb128_as_signed(ptr) ==
    LET Result(l) == [ret |-> LebSignExtend(l), end |-> l.end]
    IN  Result(LebLoop(ptr, 0, Zero32, 0))

dwarf2_leb128_length(ptr) ==
    LET RECURSIVE scan(_)
        scan(ret) == IF ptr[ret + 1] >= 128 THEN scan(ret + 1) ELSE ret
    IN  scan(0) + 1

dwarf2_get_addr(ptr, word_size) ==
    IF word_size = 4 THEN dwarf2_get_u4(ptr) ELSE Zero32

(***************************************************************************)
(* Attribute decoder.                                                      *)
(*                                                                         *)
(* An entry (dwarf2_debug_info_t) is a record                              *)
(*   abbrev   [entry_code, tag, have_child, attrs], attrs the sequence of  *)
(*            the declaration's [attribute, form] pairs                    *)
(*   symt     the symbol slot: 0 (NULL) or a symbol's id                   *)
(*   data     one pointer per declared attribute, to its raw value         *)
(*   children the entries' ids, in order                                   *)
(* A struct attribute is [form, uvalue, ptr]: uvalue is the first word of  *)
(* the union u (u.uvalue, u.svalue, u.block.size), ptr is the pointer in   *)
(* it (u.string, u.block.ptr).                                             *)
(***************************************************************************)
Attribute(f, u, p) == [form |-> f, uvalue |-> u, ptr |-> p]

\* the bytes of a NUL-terminated string at ptr
RECURSIVE CString(_)
CString(ptr) ==
    IF ptr = <<>> \/ ptr[1] = 0 THEN <<>> ELSE <<ptr[1]>> \o CString(Advance(ptr, 1))

\* the switch on attr->form: `attr` is the caller's structure as it is on
\* entry, `data` is di->data[i].  DW_FORM_data8, DW_FORM_ref8 and an unknown
\* form write nothing but the form.
DecodeForm(ctx, form, data, attr) ==
    CASE form \in {"DW_FORM_ref_addr", "DW_FORM_addr"} ->
            Attribute(form, dwarf2_get_addr(data, ctx.word_size), attr.ptr)
      [] form \in {"DW_FORM_flag", "DW_FORM_data1"} ->
            Attribute(form, U32(dwarf2_get_byte(data)), attr.ptr)
      [] form = "DW_FORM_data2" ->
            Attribute(form, U32(dwarf2_get_u2(data)), attr.ptr)
      [] form = "DW_FORM_data4" ->
            Attribute(form, dwarf2_get_u4(data), attr.ptr)
      [] form = "DW_FORM_ref1" ->
            Attribute(form, add32(ctx.ref_offset, U32(dwarf2_get_byte(data))), attr.ptr)
      [] form = "DW_FORM_ref2" ->
            Attribute(form, add32(ctx.ref_offset, U32(dwarf2_get_u2(data))), attr.ptr)
      [] form = "DW_FORM_ref4" ->
            Attribute(form, add32(ctx.ref_offset, dwarf2_get_u4(data)), attr.ptr)
      [] form = "DW_FORM_sdata" ->
            Attribute(form, dwarf2_get_leb128_as_signed(data).ret, attr.ptr)
      [] form \in {"DW_FORM_ref_udata", "DW_FORM_udata"} ->
            Attribute(form, dwarf2_get_leb128_as_unsigned(data).ret, attr.ptr)
      [] form = "DW_FORM_string" ->
            Attribute(form, attr.uvalue, data)
      [] form = "DW_FORM_strp" ->
            Attribute(form, attr.uvalue,
                      Advance(ctx.section_string, Signed32(dwarf2_get_u4(data))))
      [] form = "DW_FORM_block" ->
            LET Block(l) == Attribute(form, l.ret, Advance(data, l.end))
            IN  Block(dwarf2_get_leb128_as_unsigned(data))
      [] form = "DW_FORM_block1" ->
            Attribute(form, U32(dwarf2_get_byte(data)), Advance(data, 1))
      [] form = "DW_FORM_block2" ->
            Attribute(form, U32(dwarf2_get_u2(data)), Advance(data, 2))
      [] form = "DW_FORM_block4" ->
            Attribute(form, dwarf2_get_u4(data), Advance(data, 4))
      [] OTHER ->
            Attribute(form, attr.uvalue, attr.ptr)

\* the index of the first declared attribute of kind `at`, 0 when there is none
AttrIndex(di, at) ==
    LET First(hits) ==
            IF hits = {} THEN 0 ELSE CHOOSE i \in hits : \A j \in hits : i <= j
    IN  First({i \in 1..Len(di.abbrev.attrs) : di.abbrev.attrs[i].attribute = at})

\* [found, attr]: the return value and the caller's structure afterwards
dwarf2_find_attribute(ctx, di, at, attr) ==
    LET Decode(i) ==
            IF i = 0
            THEN [found |-> FALSE, attr |-> attr]
            ELSE [found |-> TRUE,
                  attr  |-> DecodeForm(ctx, di.abbrev.attrs[i].form, di.data[i], attr)]
    IN  Decode(AttrIndex(di, at))

\* the bytes at di->data[i] that the switch on attr->form reads or hands to
\* the caller: the width of the getter it calls, the varint it decodes, the
\* string with its terminator, the length field of a block and the bytes
\* u.block.ptr and u.block.size delimit; nothing for DW_FORM_data8,
\* DW_FORM_ref8, an unknown form and an address of a word size other than 4
FindExtent(ctx, form, data) ==
    LET Block(attr) == Len(data) - Len(attr.ptr) + Signed32(attr.uvalue)
    IN  CASE form \in {"DW_FORM_ref_addr", "DW_FORM_addr"} ->
                IF ctx.word_size = 4 THEN 4 ELSE 0
          [] form \in {"DW_FORM_flag", "DW_FORM_data1", "DW_FORM_ref1"} -> 1
          [] form \in {"DW_FORM_data2", "DW_FORM_ref2"} -> 2
          [] form \in {"DW_FORM_data4", "DW_FORM_ref4", "DW_FORM_strp"} -> 4
          [] form = "DW_FORM_sdata" -> dwarf2_get_leb128_as_signed(data).end
          [] form \in {"DW_FORM_ref_udata", "DW_FORM_udata"} ->
                dwarf2_get_leb128_as_unsigned(data).end
          [] form = "DW_FORM_string" ->
                Len(CString(DecodeForm(ctx, form, data, Attribute("", Zero32, <<>>)).ptr))
                + 1
          [] form \in {"DW_FORM_block", "DW_FORM_block1", "DW_FORM_block2",
                       "DW_FORM_block4"} ->
                Block(DecodeForm(ctx, form, data, Attribute("", Zero32, <<>>)))
          [] OTHER -> 0

(***************************************************************************)
(* Names.  A name is [pfx, index, str]: str the bytes of the entry's        *)
(* DW_AT_name string, or pfx and index of the name "pfx_index" made up for  *)
(* an entry without one.                                                    *)
(***************************************************************************)
Name(pfx, index, str) == [pfx |-> pfx, index |-> index, str |-> str]

\* a null char*
NullString == Name("NULL", 0, <<>>)

\* u.string of a decoded attribute: of a string form the string; of any other
\* form the union's first word taken as a pointer
NameOf(attr) ==
    IF attr.form \in {"DW_FORM_string", "DW_FORM_strp"}
    THEN Name("", 0, CString(attr.ptr))
    ELSE Name("*", 0, <<attr.uvalue.hi, attr.uvalue.lo>>)

\* INT_MAX
IntMax == 2 * (Pow2(IntBits - 2) - 1) + 1

\* index++ of an int, where it does not trap: past INT_MAX the int wraps
IncrementInt(index) == IF index = IntMax THEN -IntMax - 1 ELSE index + 1

\* [name, index]: the name and the static counter afterwards
dwarf2_find_name(ctx, di, pfx, index, residue) ==
    LET Named(r) ==
            IF r.found
            THEN [name |-> NameOf(r.attr), index |-> index]
            ELSE [name |-> Name(pfx, index, <<>>), index |-> IncrementInt(index)]
    IN  Named(dwarf2_find_attribute(ctx, di, "DW_AT_name", residue))

\* if (!dwarf2_find_attribute(ctx, di, at, &x)) x.u.uvalue = dflt;  x.u.uvalue
\* afterwards, x holding `prior` before
FindValue(ctx, di, at, dflt, prior) ==
    LET Value(r) == IF r.found THEN r.attr.uvalue ELSE dflt
    IN  Value(dwarf2_find_attribute(ctx, di, at, prior))

(***************************************************************************)
(* Location expressions                                                    *)
(***************************************************************************)
Wine_DW_no_register == W32(32767, 65535)
Wine_DW_frame_register == W32(32767, 65534)
Wine_DW_register_deref == W32(32768, 0)

DW_OP_addr == 3
DW_OP_const1u == 8
DW_OP_const1s == 9
DW_OP_const2u == 10
DW_OP_const2s == 11
DW_OP_const4u == 12
DW_OP_const4s == 13
DW_OP_constu == 16
DW_OP_consts == 17
DW_OP_plus_uconst == 35
DW_OP_reg0 == 80
DW_OP_reg31 == 111
DW_OP_breg0 == 112
DW_OP_breg31 == 143
DW_OP_fbreg == 145
DW_OP_piece == 147

\* unsigned long loc[64]
LocSlots == 64

\* (long)(signed char)b and (long)(short)h
SignExtend8(b) == IF b >= 128 THEN FromSigned32(b - 256) ELSE U32(b)
SignExtend16(h) == IF h >= Half \div 2 THEN FromSigned32(h - Half) ELSE U32(h)

LebOperand(l) == [v |-> l.ret, n |-> l.end]

\* the operand of a pushing opcode: [v, n], the value and the bytes read
LocOperand(op, d, word_size) ==
    CASE op = DW_OP_addr    -> [v |-> dwarf2_get_addr(d, word_size), n |-> word_size]
      [] op = DW_OP_const1u -> [v |-> U32(dwarf2_get_byte(d)), n |-> 1]
      [] op = DW_OP_const1s -> [v |-> SignExtend8(dwarf2_get_byte(d)), n |-> 1]
      [] op = DW_OP_const2u -> [v |-> U32(dwarf2_get_u2(d)), n |-> 2]
      [] op = DW_OP_const2s -> [v |-> SignExtend16(dwarf2_get_u2(d)), n |-> 2]
      [] op \in {DW_OP_const4u, DW_OP_const4s} -> [v |-> dwarf2_get_u4(d), n |-> 4]
      [] op \in {DW_OP_constu, DW_OP_plus_uconst, DW_OP_piece} ->
            LebOperand(dwarf2_get_leb128_as_unsigned(d))
      [] OTHER ->
            LebOperand(dwarf2_get_leb128_as_signed(d))

\* loc[++stk] = v.  The evaluation state s is [data, left, loc, in_register,
\* piece_found, overrun]: left is end_data - data, loc[i + 1] is the C loc[i]
\* and stk is Len(loc) - 1; overrun tells that the store went past loc[63].
LocPush(s, v) ==
    IF Len(s.loc) >= LocSlots
    THEN [s EXCEPT !.overrun = TRUE]
    ELSE [s EXCEPT !.loc = Append(@, v)]

\* an evaluator that keeps the first register it meets
LocRegisterMut(s, op, has_reg) ==
    LET Deref(set) ==
            IF op >= DW_OP_breg0 /\ has_reg THEN or32(set, Wine_DW_register_deref)
            ELSE set
        Set(regno) ==
            Deref(IF has_reg /\ s.in_register = Wine_DW_no_register
                  THEN regno ELSE s.in_register)
    IN  Set(U32(op - DW_OP_reg0))

\* the register opcodes' update of *in_register (no update through a null
\* in_register)
LocRegister(s, op, has_reg) ==
    LET Deref(set) ==
            IF op >= DW_OP_breg0 /\ has_reg THEN or32(set, Wine_DW_register_deref)
            ELSE set
        Set(regno) ==
            Deref(IF has_reg /\ (~s.piece_found \/ regno # add32(s.in_register, U32(1)))
                  THEN regno ELSE s.in_register)
    IN  Set(U32(op - DW_OP_reg0))

\* what stands for the result while the loop goes on, and for the evaluation
\* state when there is none
LocPending ==
    [ret |-> FALSE, written |-> FALSE, offset |-> Zero32, in_register |-> Zero32,
     overrun |-> FALSE]

LocNoState ==
    [data |-> <<>>, left |-> 0, loc |-> <<Zero32>>, in_register |-> Zero32,
     piece_found |-> FALSE, overrun |-> FALSE]

\* one turn of the while loop over the block: [over, next, result].  over
\* tells that the function returns, with result [ret, written, offset,
\* in_register, overrun]: ret the BOOL returned, written whether *offset was
\* assigned, offset the value assigned; else next is the evaluation state
\* after the opcode
LocStep(s, word_size, has_reg) ==
    LET Result(ret, written, offset) ==
            [over |-> TRUE, next |-> LocNoState,
             result |-> [ret |-> ret, written |-> written, offset |-> offset,
                         in_register |-> s.in_register, overrun |-> s.overrun]]
        Next(t) == [over |-> FALSE, next |-> t, result |-> LocPending]
        Switch(op, o, t) ==
            \* t is s with the cursor after the opcode and its operand
            IF op \in {DW_OP_addr, DW_OP_const1u, DW_OP_const1s, DW_OP_const2u,
                       DW_OP_const2s, DW_OP_const4u, DW_OP_const4s, DW_OP_constu,
                       DW_OP_consts}
            THEN Next(LocPush(t, o.v))
            ELSE IF op = DW_OP_plus_uconst
            THEN Next([t EXCEPT !.loc[Len(s.loc)] = add32(@, o.v)])
            ELSE IF op >= DW_OP_reg0 /\ op <= DW_OP_reg31
            THEN Next([s EXCEPT !.data = Advance(@, 1), !.left = @ - 1,
                                !.in_register = LocRegister(s, op, has_reg)])
            ELSE IF op >= DW_OP_breg0 /\ op <= DW_OP_breg31
            THEN Next(LocPush([t EXCEPT !.in_register = LocRegister(s, op, has_reg)],
                              o.v))
            ELSE IF op = DW_OP_fbreg
            THEN Next(LocPush([t EXCEPT !.in_register =
                                   IF has_reg
                                   THEN or32(Wine_DW_frame_register,
                                             Wine_DW_register_deref)
                                   ELSE @], o.v))
            ELSE IF op = DW_OP_piece
            THEN Next([t EXCEPT !.piece_found = TRUE])
            ELSE Result(s.loc[Len(s.loc)] # Zero32, FALSE, Zero32)
        Operand(op, o) ==
            Switch(op, o, [s EXCEPT !.data = Advance(@, 1 + o.n), !.left = @ - 1 - o.n])
        Opcode(op) == Operand(op, LocOperand(op, Advance(s.data, 1), word_size))
    IN  IF s.overrun THEN Result(FALSE, FALSE, Zero32)
        ELSE IF s.left <= 0 THEN Result(TRUE, TRUE, s.loc[Len(s.loc)])
        ELSE Opcode(dwarf2_get_byte(s.data))

\* the while loop over the block, from the evaluation state s to the return
RECURSIVE LocLoop(_, _, _)
LocAfter(r, word_size, has_reg) ==
    IF r.over THEN r.result ELSE LocLoop(r.next, word_size, has_reg)

LocLoop(s, word_size, has_reg) == LocAfter(LocStep(s, word_size, has_reg), word_size, has_reg)

\* dwarf2_compute_location(ctx, di, dw, &offset, in_register) up to the
\* while loop: has_reg tells whether in_register is non-null, in_reg is
\* *in_register on entry, residue is the content of the automatic xloc on
\* entry
LocBegin(ctx, di, dw, in_reg, has_reg, residue) ==
    LET Result(ret, written, offset, reg) ==
            [over |-> TRUE, next |-> LocNoState,
             result |-> [ret |-> ret, written |-> written, offset |-> offset,
                         in_register |-> reg, overrun |-> FALSE]]
        Located(xloc, reg) ==
            IF xloc.form \in {"DW_FORM_data1", "DW_FORM_data2", "DW_FORM_data4",
                              "DW_FORM_data8", "DW_FORM_udata", "DW_FORM_sdata"}
            THEN Result(TRUE, TRUE, xloc.uvalue, reg)
            ELSE [over |-> FALSE,
                  next |-> [data |-> xloc.ptr, left |-> Signed32(xloc.uvalue),
                            loc |-> <<Zero32>>, in_register |-> reg,
                            piece_found |-> FALSE, overrun |-> FALSE],
                  result |-> LocPending]
        Found(r) ==
            IF ~r.found THEN Result(FALSE, FALSE, Zero32, in_reg)
            ELSE Located(r.attr, IF has_reg THEN Wine_DW_no_register ELSE in_reg)
    IN  Found(dwarf2_find_attribute(ctx, di, dw, residue))

\* dwarf2_compute_location(ctx, di, dw, &offset, in_register)
dwarf2_compute_location(ctx, di, dw, in_reg, has_reg, residue) ==
    LocAfter(LocBegin(ctx, di, dw, in_reg, has_reg, residue), ctx.word_size, has_reg)

(***************************************************************************)
(* The producer's side of the varint law: the DWARF encodings of a value.  *)
(***************************************************************************)
RECURSIVE EncodeULEB(_)
EncodeULEB(v) ==
    IF shr32(v, 7) = Zero32
    THEN <<(v.lo % 128)>>
    ELSE <<(128 + (v.lo % 128))>> \o EncodeULEB(shr32(v, 7))

\* v is a long, as an integer
RECURSIVE EncodeSLEB(_)
EncodeSLEB(v) ==
    LET byte == v % 128
        rest == v \div 128
    IN  IF (rest = 0 /\ byte < 64) \/ (rest = -1 /\ byte >= 64)
        THEN <<byte>>
        ELSE <<(128 + byte)>> \o EncodeSLEB(rest)

\* the halves the varint inputs are built from: the group boundaries of the
\* encoding (2^7, 2^14, 2^21, 2^28), the sign bit, and the extremes
LebHiHalves == {0, 1, 31, 32, 4095, 4096, 32767, 32768, 61440, 65535}
LebLoHalves == {0, 1, 63, 64, 127, 128, 8191, 8192, 16383, 16384, 65535}

LebValues == {W32(h, l) : h \in LebHiHalves, l \in LebLoHalves}

VARIABLES
    \* SpecLeb
    lebKind,    \* "none" | "unsigned" | "signed": the reader asked for
    lebValue,   \* the value encoded (a word)
    lebPtr,     \* the bytes at the cursor: the encoding, then what follows it
    lebOut,     \* the reader's result [done, ret, end]
    \* SpecAttr
    attrCtx,    \* the parse context: [word_size, ref_offset, section_string]
    attrDi,     \* the entry asked
    attrLast,   \* the last request and its outcome [n, at, found, attr]
    \* SpecLoc
    locProgram, \* the location expression: its instructions, each its bytes
    locDi,      \* the entry whose location attribute holds the expression
    locHasReg,  \* whether the caller passes an in_register to write through
    locOut,     \* [stage, ret, written, offset, in_register, reg, deref, eval]
    \* SpecSym, SpecLine, SpecDrv
    sections,   \* the mapped sections [debug, abbrev, string, line], as bytes
    module,     \* the module described: [BaseOfImage, ...]
    ctx,        \* the parse context of the unit being decoded
    entries,    \* ctx.debug_info_table: the entries by offset
    symbols,    \* the module's symbol objects; a symbol's id is its index
    stack,      \* the call stack, the running function's frame first
    retval,     \* the value the last returning function returned
    nameIndex,  \* the static index of dwarf2_find_name
    status      \* "idle" | "run" | "done", or how the process died

lebVars == <<lebKind, lebValue, lebPtr, lebOut>>
attrVars == <<attrCtx, attrDi, attrLast>>
locVars == <<locProgram, locDi, locHasReg, locOut>>
parseVars == <<sections, module, ctx, entries, symbols, stack, retval, nameIndex, status>>

vars == <<lebVars, attrVars, locVars, parseVars>>

(***************************************************************************)
(* SpecLeb: the LEB128 readers on the encodings of a value                 *)
(***************************************************************************)
LebNoResult == [done |-> FALSE, ret |-> Zero32, end |-> 0]

LebResult(r) == [done |-> TRUE, ret |-> r.ret, end |-> r.end]

LebIdle ==
    /\ lebKind = "none"
    /\ lebValue = Zero32
    /\ lebPtr = <<>>
    /\ lebOut = LebNoResult

\* bytes that follow a varint in the stream
LebTrailer == <<255, 0>>

LebStart ==
    /\ lebKind \in {"unsigned", "signed"}
    /\ lebValue \in LebValues
    /\ lebPtr = (IF lebKind = "unsigned"
                 THEN EncodeULEB(lebValue)
                 ELSE EncodeSLEB(Signed32(lebValue))) \o LebTrailer
    /\ lebOut = LebNoResult

ReadUnsigned ==
    /\ lebKind = "unsigned"
    /\ ~lebOut.done
    /\ lebOut' = LebResult(dwarf2_get_leb128_as_unsigned(lebPtr))
    /\ UNCHANGED <<lebKind, lebValue, lebPtr, attrVars, locVars, parseVars>>

ReadSigned ==
    /\ lebKind = "signed"
    /\ ~lebOut.done
    /\ lebOut' = LebResult(dwarf2_get_leb128_as_signed(lebPtr))
    /\ UNCHANGED <<lebKind, lebValue, lebPtr, attrVars, locVars, parseVars>>

(***************************************************************************)
(* SpecAttr: requests to dwarf2_find_attribute on one entry                *)
(***************************************************************************)
NoAttribute == Attribute("", Zero32, <<>>)

AttrNoRequest == [n |-> 0, at |-> "", found |-> FALSE, attr |-> NoAttribute]

AttrIdle ==
    /\ attrCtx = [word_size |-> 4, ref_offset |-> Zero32, section_string |-> <<>>]
    /\ attrDi = [abbrev |-> [entry_code |-> 0, tag |-> "", have_child |-> FALSE,
                             attrs |-> <<>>],
                 symt |-> 0, data |-> <<>>, children |-> <<>>]
    /\ attrLast = AttrNoRequest

Forms == {"DW_FORM_addr", "DW_FORM_ref_addr", "DW_FORM_flag", "DW_FORM_data1",
          "DW_FORM_data2", "DW_FORM_data4", "DW_FORM_data8", "DW_FORM_ref1",
          "DW_FORM_ref2", "DW_FORM_ref4", "DW_FORM_ref8", "DW_FORM_sdata",
          "DW_FORM_udata", "DW_FORM_ref_udata", "DW_FORM_string", "DW_FORM_strp",
          "DW_FORM_block", "DW_FORM_block1", "DW_FORM_block2", "DW_FORM_block4",
          "DW_FORM_indirect"}

\* raw bytes at an attribute's position (the value, then the bytes after it)
RawSamples == {<<2, 0, 0, 0, 145, 124, 0, 0, 0>>,
               <<133, 1, 0, 0, 65, 66, 0, 1, 2>>}

\* what an automatic struct attribute of the caller may hold before the call
StackResidue == {Attribute("", Zero32, <<>>), Attribute("", W32(57005, 48879), <<1>>)}

AttrKinds == {"DW_AT_name", "DW_AT_byte_size", "DW_AT_sibling"}

\* the requests of one entry the model follows
MaxFinds == 3

AttrStart ==
    /\ attrCtx \in {[word_size |-> 4, ref_offset |-> r, section_string |-> <<97, 0, 98, 99, 0>>]
                    : r \in {Zero32, U32(11)}}
    /\ \E f \in Forms, d \in RawSamples :
          attrDi = [abbrev |-> [entry_code |-> 1, tag |-> "DW_TAG_base_type",
                                have_child |-> FALSE,
                                attrs |-> <<[attribute |-> "DW_AT_name",
                                             form |-> "DW_FORM_string"],
                                            [attribute |-> "DW_AT_byte_size",
                                             form |-> f]>>],
                    symt |-> 0,
                    data |-> <<<<105, 110, 116, 0>> \o d, d>>,
                    children |-> <<>>]
    /\ attrLast = AttrNoRequest

\* a caller declares a struct attribute and asks for attribute `at`
FindAttribute ==
    /\ attrLast.n < MaxFinds
    /\ \E at \in AttrKinds, residue \in StackResidue :
          LET r == dwarf2_find_attribute(attrCtx, attrDi, at, residue)
          IN  attrLast' = [n |-> attrLast.n + 1, at |-> at,
                           found |-> r.found, attr |-> r.attr]
    /\ UNCHANGED <<attrCtx, attrDi, lebVars, locVars, parseVars>>

(***************************************************************************)
(* The symbol table of the module (symbol.c, type.c): what the decoder     *)
(* hands to it.  A symbol is a record with its tag and the constructor's   *)
(* arguments; a reference to a symbol is its id, 0 the null pointer.       *)
(***************************************************************************)
symt_new_compiland(name, dir) ==
    [tag |-> "SymTagCompiland", name |-> name, dir |-> dir]

symt_new_basic(bt, name, size) ==
    [tag |-> "SymTagBaseType", bt |-> bt, name |-> name, size |-> size]

symt_new_typedef(ref, name) ==
    [tag |-> "SymTagTypedef", type |-> ref, name |-> name]

symt_new_pointer(ref) ==
    [tag |-> "SymTagPointerType", pointsto |-> ref]

symt_new_array(min, max, base, index) ==
    [tag |-> "SymTagArrayType", start |-> min, end |-> max, basetype |-> base,
     index_type |-> index]

symt_new_udt(name, size, kind) ==
    [tag |-> "SymTagUDT", name |-> name, size |-> size, kind |-> kind,
     elements |-> <<>>]

symt_add_udt_element(udt, name, elt_type, offset, size) ==
    [udt EXCEPT !.elements = Append(@, [name |-> name, type |-> elt_type,
                                        offset |-> offset, size |-> size])]

symt_new_enum(name) ==
    [tag |-> "SymTagEnum", name |-> name, elements |-> <<>>]

symt_add_enum_element(enum, name, value) ==
    [enum EXCEPT !.elements = Append(@, [name |-> name, value |-> value])]

symt_new_function_signature(ret_type, call_conv) ==
    [tag |-> "SymTagFunctionType", rettype |-> ret_type, call_conv |-> call_conv,
     params |-> <<>>]

symt_add_function_signature_parameter(sig, param) ==
    [sig EXCEPT !.params = Append(@, param)]

symt_new_function(compiland, name, addr, size, sig) ==
    [tag |-> "SymTagFunction", compiland |-> compiland, name |-> name,
     address |-> addr, size |-> size, type |-> sig, locals |-> <<>>,
     points |-> <<>>, lines |-> <<>>]

symt_add_func_local(func, dt, reg, deref, offset, block, type, name) ==
    [func EXCEPT !.locals = Append(@, [kind |-> dt, reg |-> reg, deref |-> deref,
                                       offset |-> offset, block |-> block,
                                       type |-> type, name |-> name])]

symt_add_function_point(func, point, addr, name) ==
    [func EXCEPT !.points = Append(@, [tag |-> point, address |-> addr,
                                       name |-> name])]

symt_add_func_line(func, source, line, offset) ==
    [func EXCEPT !.lines = Append(@, [source |-> source, line |-> line,
                                      offset |-> offset])]

symt_open_func_block(func, parent, pc, len) ==
    [tag |-> "SymTagBlock", container |-> IF parent = 0 THEN func ELSE parent,
     address |-> pc, size |-> len, closed |-> FALSE]

symt_close_func_block(block) == [block EXCEPT !.closed = TRUE]

symt_new_global_variable(compiland, name, is_static, addr, size, type) ==
    [tag |-> "SymTagData", compiland |-> compiland, name |-> name,
     is_static |-> is_static, address |-> addr, size |-> size, type |-> type]

\* symt_get_info(type, TI_GET_LENGTH, &size): [ok, size]
RECURSIVE TypeLength(_, _)
TypeLength(syms, type) ==
    IF type = 0 THEN [ok |-> FALSE, size |-> Zero32]
    ELSE LET t == syms[type]
         IN  CASE t.tag \in {"SymTagBaseType", "SymTagUDT"} ->
                      [ok |-> TRUE, size |-> t.size]
               [] t.tag = "SymTagPointerType" -> [ok |-> TRUE, size |-> U32(4)]
               [] t.tag = "SymTagEnum" -> [ok |-> TRUE, size |-> U32(4)]
               [] t.tag = "SymTagTypedef" -> TypeLength(syms, t.type)
               [] OTHER -> [ok |-> FALSE, size |-> Zero32]

\* elf_is_in_thunk_area(addr, thunks) >= 0
InThunkArea(addr, thunks) ==
    \E i \in 1..Len(thunks) :
        /\ ~lt32(addr, thunks[i].rva_start)
        /\ lt32(addr, thunks[i].rva_end)

(***************************************************************************)
(* The call stack.  A frame is [fn, pc, di, ...]: the function, the place  *)
(* it is at, and its parameters and automatic variables.                   *)
(***************************************************************************)
\* the deepest call chain followed; a deeper one exhausts the C stack
MaxDepth == 16

Top == stack[1]

Callers == Tail(stack)

\* the static index of dwarf2_find_name, and whether its increment trapped
IndexAt(n) == [index |-> n, trapped |-> FALSE]

\* the static index after calls of dwarf2_find_name that left it at v.  The
\* increment of INT_MAX overflows a signed int: the counter wraps, or the
\* increment traps and the process is over.
StoreIndex(v) ==
    nameIndex' \in (IF v < nameIndex.index
                    THEN {IndexAt(v), [nameIndex EXCEPT !.trapped = TRUE]}
                    ELSE {IndexAt(v)})

Running(fn, pc) ==
    /\ status = "run"
    /\ ~nameIndex.trapped
    /\ stack # <<>>
    /\ Top.fn = fn
    /\ Top.pc = pc

\* the running function, its frame now `self`, calls `callee`
Call(callee, self) ==
    IF Len(stack) >= MaxDepth
    THEN /\ status' = "stack overflow"
         /\ UNCHANGED <<stack, retval>>
    ELSE /\ stack' = <<callee, self>> \o Callers
         /\ UNCHANGED <<status, retval>>

\* the running function goes on in its own frame
Goto(self) ==
    /\ stack' = <<self>> \o Callers
    /\ UNCHANGED <<status, retval>>

\* return v;
Return(v) ==
    /\ stack' = Callers
    /\ retval' = v
    /\ status' = IF Callers = <<>> THEN "done" ELSE status

\* return; of a function returning nothing
ReturnVoid ==
    /\ stack' = Callers
    /\ status' = (IF Callers = <<>> THEN "done" ELSE status)
    /\ UNCHANGED retval

\* the process dies
Die(how) ==
    /\ status' = how
    /\ UNCHANGED <<stack, retval>>

Frame(fn, di) == [fn |-> fn, pc |-> "enter", di |-> di]

\* the children vector of an entry; empty without the has-children flag
ChildrenOf(di) == entries[di].children

\* a new symbol object and its id
NewId == Len(symbols) + 1

(***************************************************************************)
(* The symbol builder                                                      *)
(***************************************************************************)
\* sparse_array_find(&ctx->debug_info_table, key): the entry, 0 for NULL
debug_info_find(key) ==
    IF Signed32(key) \in DOMAIN entries THEN Signed32(key) ELSE 0

\* the parsing function dwarf2_load_one_entry calls for a tag
ParserOf(tag) ==
    CASE tag = "DW_TAG_typedef" -> "dwarf2_parse_typedef"
      [] tag = "DW_TAG_base_type" -> "dwarf2_parse_base_type"
      [] tag = "DW_TAG_pointer_type" -> "dwarf2_parse_pointer_type"
      [] tag \in {"DW_TAG_class_type", "DW_TAG_structure_type", "DW_TAG_union_type"} ->
            "dwarf2_parse_udt_type"
      [] tag = "DW_TAG_array_type" -> "dwarf2_parse_array_type"
      [] tag = "DW_TAG_const_type" -> "dwarf2_parse_const_type"
      [] tag = "DW_TAG_volatile_type" -> "dwarf2_parse_volatile_type"
      [] tag = "DW_TAG_reference_type" -> "dwarf2_parse_reference_type"
      [] tag = "DW_TAG_enumeration_type" -> "dwarf2_parse_enumeration_type"
      [] tag = "DW_TAG_subprogram" -> "dwarf2_parse_subprogram"
      [] tag = "DW_TAG_subroutine_type" -> "dwarf2_parse_subroutine_type"
      [] tag = "DW_TAG_variable" -> "dwarf2_parse_variable"
      [] OTHER -> ""

UdtKindOf(tag) ==
    CASE tag = "DW_TAG_class_type" -> "UdtClass"
      [] tag = "DW_TAG_structure_type" -> "UdtStruct"
      [] OTHER -> "UdtUnion"

\* a dwarf2_subprogram_t
Subprogram(compiland, func, frame_offset, frame_reg) ==
    [compiland |-> compiland, func |-> func, frame_offset |-> frame_offset,
     frame_reg |-> frame_reg]

\* dwarf2_load_one_entry(ctx, di, compiland): the switch; the call it makes
\* is its last statement, the callee takes its frame over
LoadOneEntry ==
    /\ Running("dwarf2_load_one_entry", "enter")
    /\ LET di  == Top.di
           tag == entries[di].abbrev.tag
           fn  == ParserOf(tag)
       IN  CASE fn = "" -> ReturnVoid
             [] fn = "dwarf2_parse_variable" ->
                    Goto([fn |-> fn, pc |-> "enter", di |-> di, block |-> 0,
                          subpgm |-> Subprogram(Top.compiland, 0, Zero32, Zero32)])
             [] fn = "dwarf2_parse_subprogram" ->
                    Goto([fn |-> fn, pc |-> "enter", di |-> di,
                          compiland |-> Top.compiland])
             [] fn = "dwarf2_parse_udt_type" ->
                    Goto([fn |-> fn, pc |-> "enter", di |-> di, udt |-> UdtKindOf(tag)])
             [] OTHER -> Goto(Frame(fn, di))
    /\ UNCHANGED <<sections, module, ctx, entries, symbols, nameIndex>>

LoadFrame(di, compiland) ==
    [fn |-> "dwarf2_load_one_entry", pc |-> "enter", di |-> di,
     compiland |-> compiland]

\* dwarf2_lookup_type(ctx, di), up to the call of dwarf2_load_one_entry
LookupType ==
    /\ Running("dwarf2_lookup_type", "enter")
    /\ \E residue \in StackResidue :
          LET attr == dwarf2_find_attribute(ctx, entries[Top.di], "DW_AT_type", residue)
              type == debug_info_find(attr.attr.uvalue)
          IN  IF ~attr.found THEN Return(0)
              ELSE IF type = 0 THEN Die("null dereference")
              ELSE IF entries[type].symt = 0
              THEN Call(LoadFrame(type, 0), [Top EXCEPT !.pc = "loaded", !.type = type])
              ELSE Return(entries[type].symt)
    /\ UNCHANGED <<sections, module, ctx, entries, symbols, nameIndex>>

\* return type->symt;
LookupTypeLoaded ==
    /\ Running("dwarf2_lookup_type", "loaded")
    /\ Return(entries[Top.type].symt)
    /\ UNCHANGED <<sections, module, ctx, entries, symbols, nameIndex>>

LookupFrame(di) ==
    [fn |-> "dwarf2_lookup_type", pc |-> "enter", di |-> di, type |-> 0]

\* enum BasicType of a DW_ATE_ encoding (DW_ATE_void is 0)
BasicTypeOf(encoding) ==
    LET bt == <<"btULong", "btBool", "btComplex", "btFloat", "btInt", "btChar",
                "btUInt", "btChar">>
    IN  IF encoding = Zero32 THEN "btVoid"
        ELSE IF encoding.hi = 0 /\ encoding.lo \in DOMAIN bt THEN bt[encoding.lo]
        ELSE "btNoType"

\* di->symt = sym, sym a new symbol object
SetNewSymbol(di, sym) ==
    /\ symbols' = Append(symbols, sym)
    /\ entries' = [entries EXCEPT ![di].symt = NewId]

ParseBaseType ==
    /\ Running("dwarf2_parse_base_type", "enter")
    /\ \E residue \in StackResidue :
          LET di   == entries[Top.di]
              name == dwarf2_find_name(ctx, di, "base_type", nameIndex.index, residue)
              size == FindValue(ctx, di, "DW_AT_byte_size", Zero32, residue)
              encoding == FindValue(ctx, di, "DW_AT_encoding", Zero32, residue)
          IN  IF di.symt # 0
              THEN /\ Return(di.symt)
                   /\ UNCHANGED <<entries, symbols, nameIndex>>
              ELSE /\ SetNewSymbol(Top.di, symt_new_basic(BasicTypeOf(encoding),
                                                          name.name, size))
                   /\ StoreIndex(name.index)
                   /\ Return(NewId)
    /\ UNCHANGED <<sections, module, ctx>>

\* dwarf2_parse_typedef up to the call of dwarf2_lookup_type
ParseTypedef ==
    /\ Running("dwarf2_parse_typedef", "enter")
    /\ \E residue \in StackResidue :
          LET di   == entries[Top.di]
              name == dwarf2_find_name(ctx, di, "typedef", nameIndex.index, residue)
          IN  IF di.symt # 0
              THEN /\ Return(di.symt)
                   /\ UNCHANGED nameIndex
              ELSE /\ Call(LookupFrame(Top.di),
                           [fn |-> Top.fn, pc |-> "ref_type", di |-> Top.di,
                            name |-> name.name])
                   /\ StoreIndex(name.index)
    /\ UNCHANGED <<sections, module, ctx, entries, symbols>>

ParseTypedefRef ==
    /\ Running("dwarf2_parse_typedef", "ref_type")
    /\ SetNewSymbol(Top.di, symt_new_typedef(retval, Top.name))
    /\ Return(NewId)
    /\ UNCHANGED <<sections, module, ctx, nameIndex>>

\* dwarf2_parse_pointer_type, dwarf2_parse_reference_type,
\* dwarf2_parse_const_type and dwarf2_parse_volatile_type up to the call of
\* dwarf2_lookup_type
ParseModifierType(fn) ==
    /\ Running(fn, "enter")
    /\ IF entries[Top.di].symt # 0
       THEN Return(entries[Top.di].symt)
       ELSE Call(LookupFrame(Top.di), [Top EXCEPT !.pc = "ref_type"])
    /\ UNCHANGED <<sections, module, ctx, entries, symbols, nameIndex>>

ParsePointerType == ParseModifierType("dwarf2_parse_pointer_type")

ParsePointerTypeRef ==
    /\ Running("dwarf2_parse_pointer_type", "ref_type")
    /\ SetNewSymbol(Top.di, symt_new_pointer(retval))
    /\ Return(NewId)
    /\ UNCHANGED <<sections, module, ctx, nameIndex>>

ParseReferenceType == ParseModifierType("dwarf2_parse_reference_type")

ParseReferenceTypeRef ==
    /\ Running("dwarf2_parse_reference_type", "ref_type")
    /\ SetNewSymbol(Top.di, symt_new_pointer(retval))
    /\ Return(NewId)
    /\ UNCHANGED <<sections, module, ctx, nameIndex>>

ParseConstType == ParseModifierType("dwarf2_parse_const_type")

ParseConstTypeRef ==
    /\ Running("dwarf2_parse_const_type", "ref_type")
    /\ entries' = [entries EXCEPT ![Top.di].symt = retval]
    /\ Return(retval)
    /\ UNCHANGED <<sections, module, ctx, symbols, nameIndex>>

ParseVolatileType == ParseModifierType("dwarf2_parse_volatile_type")

ParseVolatileTypeRef ==
    /\ Running("dwarf2_parse_volatile_type", "ref_type")
    /\ entries' = [entries EXCEPT ![Top.di].symt = retval]
    /\ Return(retval)
    /\ UNCHANGED <<sections, module, ctx, symbols, nameIndex>>

\* dwarf2_parse_array_type up to the call of dwarf2_lookup_type; min and max
\* are automatic and not initialised
ParseArrayType ==
    /\ Running("dwarf2_parse_array_type", "enter")
    /\ \E residue \in StackResidue :
          IF entries[Top.di].symt # 0
          THEN Return(entries[Top.di].symt)
          ELSE IF ~entries[Top.di].abbrev.have_child
          THEN Return(0)
          ELSE Call(LookupFrame(Top.di),
                    [fn |-> Top.fn, pc |-> "ref_type", di |-> Top.di, i |-> 0,
                     ref_type |-> 0, idx_type |-> 0,
                     min |-> residue.uvalue, max |-> residue.uvalue])
    /\ UNCHANGED <<sections, module, ctx, entries, symbols, nameIndex>>

ParseArrayTypeRef ==
    /\ Running("dwarf2_parse_array_type", "ref_type")
    /\ Goto([Top EXCEPT !.pc = "children", !.ref_type = retval])
    /\ UNCHANGED <<sections, module, ctx, entries, symbols, nameIndex>>

\* one turn of the loop over the children, up to the call of
\* dwarf2_lookup_type for a subrange; after the last child, the array symbol
ParseArrayTypeChild ==
    /\ Running("dwarf2_parse_array_type", "children")
    /\ IF Top.i < Len(ChildrenOf(Top.di))
       THEN LET child == ChildrenOf(Top.di)[Top.i + 1]
                next  == [Top EXCEPT !.i = @ + 1]
            IN  /\ IF entries[child].abbrev.tag = "DW_TAG_subrange_type"
                   THEN Call(LookupFrame(child), [next EXCEPT !.pc = "subrange"])
                   ELSE Goto(next)
                /\ UNCHANGED <<entries, symbols>>
       ELSE /\ SetNewSymbol(Top.di, symt_new_array(Top.min, Top.max, Top.ref_type,
                                                   Top.idx_type))
            /\ Return(NewId)
    /\ UNCHANGED <<sections, module, ctx, nameIndex>>

\* a decoder in which a count does not override an upper bound
SubrangeBoundsMut(child, min0, max0, residue) ==
    LET Bounds3(min, max, cnt) ==
            [min |-> min,
             max |-> IF cnt.found /\ max = Zero32 THEN add32(min, cnt.attr.uvalue)
                     ELSE max]
    IN  Bounds3(FindValue(ctx, child, "DW_AT_lower_bound", Zero32,
                          Attribute("", min0, <<>>)),
                FindValue(ctx, child, "DW_AT_upper_bound", Zero32,
                          Attribute("", max0, <<>>)),
                dwarf2_find_attribute(ctx, child, "DW_AT_count", residue))

\* the bounds of a subrange child: [min, max], the automatic min and max
\* holding min0 and max0 before
SubrangeBounds(child, min0, max0, residue) ==
    LET Bounds3(min, max, cnt) ==
            [min |-> min,
             max |-> IF cnt.found THEN add32(min, cnt.attr.uvalue) ELSE max]
    IN  Bounds3(FindValue(ctx, child, "DW_AT_lower_bound", Zero32,
                          Attribute("", min0, <<>>)),
                FindValue(ctx, child, "DW_AT_upper_bound", Zero32,
                          Attribute("", max0, <<>>)),
                dwarf2_find_attribute(ctx, child, "DW_AT_count", residue))

ParseArrayTypeSubrange ==
    /\ Running("dwarf2_parse_array_type", "subrange")
    /\ \E residue \in StackResidue :
       \E b \in {SubrangeBounds(entries[ChildrenOf(Top.di)[Top.i]], Top.min, Top.max,
                                 residue)} :
          Goto([Top EXCEPT !.pc = "children", !.idx_type = retval,
                           !.min = b.min, !.max = b.max])
    /\ UNCHANGED <<sections, module, ctx, entries, symbols, nameIndex>>

\* a decoder that stores the aggregate in the slot only after its children
ParseUdtTypeMut ==
    /\ Running("dwarf2_parse_udt_type", "enter")
    /\ \E residue \in StackResidue :
          LET di   == entries[Top.di]
              name == dwarf2_find_name(ctx, di, "udt", nameIndex.index, residue)
              size == FindValue(ctx, di, "DW_AT_byte_size", Zero32, residue)
          IN  IF di.symt # 0
              THEN /\ Return(di.symt)
                   /\ UNCHANGED <<entries, symbols, nameIndex>>
              ELSE /\ symbols' = Append(symbols, symt_new_udt(name.name, size, Top.udt))
                   /\ StoreIndex(name.index)
                   /\ Goto([fn |-> Top.fn, pc |-> "children", di |-> Top.di, i |-> 0])
                   /\ UNCHANGED entries
    /\ UNCHANGED <<sections, module, ctx>>

\* dwarf2_parse_udt_type up to the loop over the children
ParseUdtType ==
    /\ Running("dwarf2_parse_udt_type", "enter")
    /\ \E residue \in StackResidue :
          LET di   == entries[Top.di]
              name == dwarf2_find_name(ctx, di, "udt", nameIndex.index, residue)
              size == FindValue(ctx, di, "DW_AT_byte_size", Zero32, residue)
          IN  IF di.symt # 0
              THEN /\ Return(di.symt)
                   /\ UNCHANGED <<entries, symbols, nameIndex>>
              ELSE /\ SetNewSymbol(Top.di, symt_new_udt(name.name, size, Top.udt))
                   /\ StoreIndex(name.index)
                   /\ Goto([fn |-> Top.fn, pc |-> "children", di |-> Top.di, i |-> 0])
    /\ UNCHANGED <<sections, module, ctx>>

\* one turn of the loop over the children, up to the call it makes
ParseUdtTypeChild ==
    /\ Running("dwarf2_parse_udt_type", "children")
    /\ IF entries[Top.di].abbrev.have_child /\ Top.i < Len(ChildrenOf(Top.di))
       THEN LET child == ChildrenOf(Top.di)[Top.i + 1]
                tag   == entries[child].abbrev.tag
                next  == [Top EXCEPT !.i = @ + 1]
            IN  CASE tag = "DW_TAG_member" ->
                       Call([fn |-> "dwarf2_parse_udt_member", pc |-> "enter",
                             di |-> child, parent |-> entries[Top.di].symt], next)
                  [] tag = "DW_TAG_enumeration_type" ->
                       Call(Frame("dwarf2_parse_enumeration_type", child), next)
                  [] OTHER -> Goto(next)
       ELSE Return(entries[Top.di].symt)
    /\ UNCHANGED <<sections, module, ctx, entries, symbols, nameIndex>>

\* dwarf2_parse_udt_member up to the call of dwarf2_lookup_type
ParseUdtMember ==
    /\ Running("dwarf2_parse_udt_member", "enter")
    /\ \E residue \in StackResidue :
          LET name == dwarf2_find_name(ctx, entries[Top.di], "udt_member",
                                       nameIndex.index, residue)
          IN  /\ Call(LookupFrame(Top.di),
                      [fn |-> Top.fn, pc |-> "elt_type", di |-> Top.di,
                       parent |-> Top.parent, name |-> name.name])
              /\ StoreIndex(name.index)
    /\ UNCHANGED <<sections, module, ctx, entries, symbols>>

\* a builder that takes the declared bit offset as it is
MemberPlaceMut(di, elt_type, residue) ==
    LET Place(loc) ==
            [offset |-> add32(shl32(IF loc.written THEN loc.offset ELSE Zero32, 3),
                              FindValue(ctx, di, "DW_AT_bit_offset", Zero32, residue)),
             size |-> FindValue(ctx, di, "DW_AT_bit_size", Zero32, residue),
             overrun |-> loc.overrun]
    IN  Place(dwarf2_compute_location(ctx, di, "DW_AT_data_member_location",
                                      Zero32, FALSE, residue))

\* the bit position and bit size of a member: [offset, size]
MemberPlace(di, elt_type, residue) ==
    LET Place(loc, bit_size, bit_offset) ==
            [offset |-> add32(shl32(IF loc.written THEN loc.offset ELSE Zero32, 3),
                              bit_offset),
             size |-> bit_size, overrun |-> loc.overrun]
        SizeOr(length) == IF length.ok THEN length.size ELSE Zero32
        BitOffset(bo, bit_size) ==
            IF bo.found
            THEN sub32(sub32(shl32(FindValue(ctx, di, "DW_AT_byte_size",
                                             SizeOr(TypeLength(symbols, elt_type)),
                                             residue), 3),
                             bo.attr.uvalue),
                       bit_size)
            ELSE Zero32
        Bits(loc, bit_size) ==
            Place(loc, bit_size,
                  BitOffset(dwarf2_find_attribute(ctx, di, "DW_AT_bit_offset", residue),
                            bit_size))
    IN  Bits(dwarf2_compute_location(ctx, di, "DW_AT_data_member_location",
                                     Zero32, FALSE, residue),
             FindValue(ctx, di, "DW_AT_bit_size", Zero32, residue))

\* a builder that places a member and does not add it
ParseUdtMemberTypeMut ==
    /\ Running("dwarf2_parse_udt_member", "elt_type")
    /\ ReturnVoid
    /\ UNCHANGED <<sections, module, ctx, entries, symbols, nameIndex>>

ParseUdtMemberType ==
    /\ Running("dwarf2_parse_udt_member", "elt_type")
    /\ \E residue \in StackResidue :
       \E m \in {MemberPlace(entries[Top.di], retval, residue)} :
              IF m.overrun
              THEN /\ Die("stack smashed")
                   /\ UNCHANGED symbols
              ELSE /\ symbols' = [symbols EXCEPT ![Top.parent] =
                                     symt_add_udt_element(@, Top.name, retval,
                                                          m.offset, m.size)]
                   /\ ReturnVoid
    /\ UNCHANGED <<sections, module, ctx, entries, nameIndex>>

\* the enumerators of the children from the i-th on added to enum:
\* [enum, index], the symbol and the static counter afterwards
RECURSIVE ParseEnumerators(_, _, _, _, _)
ParseEnumerators(children, i, enum, index, residue) ==
    IF i > Len(children) THEN [enum |-> enum, index |-> index]
    ELSE LET Enumerator(child, name) ==
                 ParseEnumerators(children, i + 1,
                     symt_add_enum_element(enum, name.name,
                         FindValue(ctx, child, "DW_AT_const_value", Zero32, residue)),
                     name.index, residue)
         IN  IF entries[children[i]].abbrev.tag = "DW_TAG_enumerator"
             THEN Enumerator(entries[children[i]],
                             dwarf2_find_name(ctx, entries[children[i]], "enum_value",
                                              index, residue))
             ELSE ParseEnumerators(children, i + 1, enum, index, residue)

ParseEnumerationType ==
    /\ Running("dwarf2_parse_enumeration_type", "enter")
    /\ \E residue \in StackResidue :
          LET di   == entries[Top.di]
              Enumerators(name) ==
                  ParseEnumerators(IF di.abbrev.have_child THEN di.children ELSE <<>>,
                                   1, symt_new_enum(name.name), name.index, residue)
          IN  IF di.symt # 0
              THEN /\ Return(di.symt)
                   /\ UNCHANGED <<entries, symbols, nameIndex>>
              ELSE \E e \in {Enumerators(dwarf2_find_name(ctx, di, "enum", nameIndex.index,
                                                          residue))} :
                   /\ SetNewSymbol(Top.di, e.enum)
                   /\ StoreIndex(e.index)
                   /\ Return(NewId)
    /\ UNCHANGED <<sections, module, ctx>>

\* dwarf2_parse_subroutine_type up to the call of dwarf2_lookup_type
ParseSubroutineType ==
    /\ Running("dwarf2_parse_subroutine_type", "enter")
    /\ IF entries[Top.di].symt # 0
       THEN Return(entries[Top.di].symt)
       ELSE Call(LookupFrame(Top.di),
                 [fn |-> Top.fn, pc |-> "ret_type", di |-> Top.di, i |-> 0,
                  sig_type |-> 0])
    /\ UNCHANGED <<sections, module, ctx, entries, symbols, nameIndex>>

ParseSubroutineTypeRet ==
    /\ Running("dwarf2_parse_subroutine_type", "ret_type")
    /\ symbols' = Append(symbols, symt_new_function_signature(retval, "CV_CALL_FAR_C"))
    /\ Goto([Top EXCEPT !.pc = "children", !.sig_type = NewId])
    /\ UNCHANGED <<sections, module, ctx, entries, nameIndex>>

ParseSubroutineTypeChild ==
    /\ Running("dwarf2_parse_subroutine_type", "children")
    /\ IF entries[Top.di].abbrev.have_child /\ Top.i < Len(ChildrenOf(Top.di))
       THEN LET child == ChildrenOf(Top.di)[Top.i + 1]
                next  == [Top EXCEPT !.i = @ + 1]
            IN  /\ IF entries[child].abbrev.tag = "DW_TAG_formal_parameter"
                   THEN Call(LookupFrame(child), [next EXCEPT !.pc = "parameter"])
                   ELSE Goto(next)
                /\ UNCHANGED entries
       ELSE /\ entries' = [entries EXCEPT ![Top.di].symt = Top.sig_type]
            /\ Return(Top.sig_type)
    /\ UNCHANGED <<sections, module, ctx, symbols, nameIndex>>

ParseSubroutineTypeParameter ==
    /\ Running("dwarf2_parse_subroutine_type", "parameter")
    /\ symbols' = [symbols EXCEPT ![Top.sig_type] =
                      symt_add_function_signature_parameter(@, retval)]
    /\ Goto([Top EXCEPT !.pc = "children"])
    /\ UNCHANGED <<sections, module, ctx, entries, nameIndex>>

\* a CodeView register: [base, plus], base + plus; CvNone is 0
CvReg(base, plus) == [base |-> base, plus |-> plus]

CvNone == CvReg("0", 0)

\* regno is an int, as a word
dwarf2_map_register(regno) ==
    LET names == <<"CV_REG_EAX", "CV_REG_ECX", "CV_REG_EDX", "CV_REG_EBX",
                   "CV_REG_ESP", "CV_REG_EBP", "CV_REG_ESI", "CV_REG_EDI",
                   "CV_REG_EIP", "CV_REG_EFLAGS", "CV_REG_CS", "CV_REG_SS",
                   "CV_REG_DS", "CV_REG_ES", "CV_REG_FS", "CV_REG_GS">>
        n == regno.lo
    IN  IF regno.hi # 0 THEN CvNone
        ELSE IF n + 1 \in DOMAIN names THEN CvReg(names[n + 1], 0)
        ELSE IF n \in 16..23 THEN CvReg("CV_REG_ST0", n - 16)
        ELSE IF n = 24 THEN CvReg("CV_REG_CTRL", 0)
        ELSE IF n = 25 THEN CvReg("CV_REG_STAT", 0)
        ELSE IF n = 26 THEN CvReg("CV_REG_TAG", 0)
        ELSE IF n \in 32..39 THEN CvReg("CV_REG_XMM0", n - 32)
        ELSE IF n = 40 THEN CvReg("CV_REG_MXCSR", 0)
        ELSE CvNone

\* x & ~Wine_DW_register_deref and x & Wine_DW_register_deref
WithoutDeref(x) == W32(x.hi % (Half \div 2), x.lo)
HasDeref(x) == x.hi >= Half \div 2

\* dwarf2_parse_variable up to the call of dwarf2_lookup_type
ParseVariable ==
    /\ Running("dwarf2_parse_variable", "enter")
    /\ Call(LookupFrame(Top.di), [Top EXCEPT !.pc = "param_type"])
    /\ UNCHANGED <<sections, module, ctx, entries, symbols, nameIndex>>

\* a decoder that places a global variable at its link-time address
VariableSymbolMut(syms, subpgm, block, is_pmt, name, param_type, loc, offset, ext) ==
    [symbols |-> Append(syms,
         symt_new_global_variable(subpgm.compiland, name, ext = Zero32, offset,
                                  Zero32, param_type)),
     died |-> FALSE]

\* what dwarf2_parse_variable adds to the symbols for a located variable:
\* [symbols, died]
VariableSymbol(syms, subpgm, block, is_pmt, name, param_type, loc, offset, ext) ==
    LET regno  == WithoutDeref(loc.in_register)
        framed == WithoutDeref(loc.in_register) = Wine_DW_frame_register
        in_reg == IF framed THEN or32(subpgm.frame_reg, Wine_DW_register_deref)
                  ELSE loc.in_register
        off    == IF framed THEN add32(offset, subpgm.frame_offset) ELSE offset
    IN  IF regno = Wine_DW_no_register
        THEN [symbols |-> Append(syms,
                  symt_new_global_variable(subpgm.compiland, name, ext = Zero32,
                                           add32(module.BaseOfImage, offset),
                                           Zero32, param_type)),
              died |-> FALSE]
        ELSE IF subpgm.func = 0
        THEN [symbols |-> syms, died |-> TRUE]
        ELSE [symbols |-> [syms EXCEPT ![subpgm.func] =
                  symt_add_func_local(@, IF is_pmt THEN "DataIsParam" ELSE "DataIsLocal",
                                      dwarf2_map_register(WithoutDeref(in_reg)),
                                      HasDeref(in_reg), off, block, param_type, name)],
              died |-> FALSE]

\* offset and in_reg are automatic and not initialised
ParseVariableType ==
    /\ Running("dwarf2_parse_variable", "param_type")
    /\ \E residue \in StackResidue :
          LET di     == entries[Top.di]
              subpgm == Top.subpgm
              is_pmt == entries[Top.di].abbrev.tag = "DW_TAG_formal_parameter"
              sig    == IF Top.subpgm.func = 0 THEN 0 ELSE symbols[Top.subpgm.func].type
              Located(name, loc) ==
                  IF loc.ret
                  THEN VariableSymbol(symbols, subpgm, Top.block, is_pmt, name.name,
                                      retval, loc,
                                      IF loc.written THEN loc.offset ELSE residue.uvalue,
                                      FindValue(ctx, di, "DW_AT_external", Zero32,
                                                residue))
                  ELSE [symbols |-> symbols, died |-> FALSE]
          IN  \E name \in {dwarf2_find_name(ctx, di, "parameter", nameIndex.index, residue)},
                 loc \in {dwarf2_compute_location(ctx, di, "DW_AT_location",
                                                  residue.uvalue, TRUE, residue)} :
              \E v \in {Located(name, loc)} :
              /\ StoreIndex(name.index)
              /\ IF loc.overrun
                 THEN Die("stack smashed") /\ UNCHANGED symbols
                 ELSE IF v.died
                 THEN Die("assertion failed") /\ UNCHANGED symbols
                 ELSE /\ symbols' = IF is_pmt /\ sig # 0
                                    THEN [v.symbols EXCEPT ![sig] =
                                            symt_add_function_signature_parameter(@, retval)]
                                    ELSE v.symbols
                      /\ ReturnVoid
    /\ UNCHANGED <<sections, module, ctx, entries>>

\* dwarf2_parse_subprogram up to the call of dwarf2_lookup_type
ParseSubprogram ==
    /\ Running("dwarf2_parse_subprogram", "enter")
    /\ \E residue \in StackResidue :
          LET di      == entries[Top.di]
              low_pc  == FindValue(ctx, di, "DW_AT_low_pc", Zero32, residue)
              high_pc == FindValue(ctx, di, "DW_AT_high_pc", Zero32, residue)
              is_decl == FindValue(ctx, di, "DW_AT_declaration", Zero32, residue)
              name    == dwarf2_find_name(ctx, di, "subprogram", nameIndex.index, residue)
          IN  IF di.symt # 0
              THEN Return(di.symt) /\ UNCHANGED nameIndex
              ELSE IF InThunkArea(add32(module.BaseOfImage, low_pc), ctx.thunks)
              THEN Return(0) /\ UNCHANGED nameIndex
              ELSE /\ Call(LookupFrame(Top.di),
                           [fn |-> Top.fn, pc |-> "ret_type", di |-> Top.di, i |-> 0,
                            low_pc |-> low_pc, high_pc |-> high_pc,
                            is_decl |-> is_decl, name |-> name.name,
                            subpgm |-> Subprogram(Top.compiland, 0, Zero32, Zero32)])
                   /\ StoreIndex(name.index)
    /\ UNCHANGED <<sections, module, ctx, entries, symbols>>

\* subpgm.frame_offset and subpgm.frame_reg, not initialised before
FrameBase(di, residue) ==
    LET Base(loc) ==
            IF loc.ret /\ loc.in_register # Wine_DW_no_register
            THEN [offset |-> IF loc.written THEN loc.offset ELSE residue.uvalue,
                  reg |-> loc.in_register, overrun |-> loc.overrun]
            ELSE [offset |-> Zero32, reg |-> Zero32, overrun |-> loc.overrun]
    IN  Base(dwarf2_compute_location(ctx, di, "DW_AT_frame_base",
                                     residue.uvalue, TRUE, residue))

\* from the return of dwarf2_lookup_type to the loop over the children
ParseSubprogramRet ==
    /\ Running("dwarf2_parse_subprogram", "ret_type")
    /\ \E residue \in StackResidue :
          LET sig  == symt_new_function_signature(retval, "CV_CALL_FAR_C")
              func == symt_new_function(Top.subpgm.compiland, Top.name,
                                        add32(module.BaseOfImage, Top.low_pc),
                                        sub32(Top.high_pc, Top.low_pc), NewId)
              decl == Top.is_decl # Zero32
          IN  \E fb \in {FrameBase(entries[Top.di], residue)} :
              IF fb.overrun
              THEN Die("stack smashed") /\ UNCHANGED <<symbols, entries>>
              ELSE /\ symbols' = IF decl THEN Append(symbols, sig)
                                 ELSE symbols \o <<sig, func>>
                   /\ entries' = IF decl THEN entries
                                 ELSE [entries EXCEPT ![Top.di].symt = NewId + 1]
                   /\ Goto([Top EXCEPT !.pc = "children",
                                       !.subpgm = Subprogram(Top.subpgm.compiland,
                                                             IF decl THEN 0 ELSE NewId + 1,
                                                             fb.offset, fb.reg)])
    /\ UNCHANGED <<sections, module, ctx, nameIndex>>

VariableFrame(di, subpgm, block) ==
    [fn |-> "dwarf2_parse_variable", pc |-> "enter", di |-> di, block |-> block,
     subpgm |-> subpgm]

BlockFrame(di, subpgm, parent) ==
    [fn |-> "dwarf2_parse_subprogram_block", pc |-> "enter", di |-> di, i |-> 0,
     subpgm |-> subpgm, parent_block |-> parent, block |-> 0]

InlinedFrame(di, subpgm) ==
    [fn |-> "dwarf2_parse_inlined_subroutine", pc |-> "children", di |-> di,
     i |-> 0, subpgm |-> subpgm]

\* dwarf2_parse_subprogram_label(subpgm, di): what it does to the symbols and
\* the static counter; symt_add_function_point stores through func
ParseSubprogramLabel(subpgm, di, next) ==
    \E residue \in StackResidue :
        LET low_pc == FindValue(ctx, entries[di], "DW_AT_low_pc", Zero32, residue)
            name   == dwarf2_find_name(ctx, entries[di], "label", nameIndex.index, residue)
        IN  /\ StoreIndex(name.index)
            /\ IF subpgm.func = 0
               THEN Die("null dereference") /\ UNCHANGED symbols
               ELSE /\ symbols' = [symbols EXCEPT ![subpgm.func] =
                          symt_add_function_point(@, "SymTagLabel",
                                                  add32(module.BaseOfImage, low_pc),
                                                  name.name)]
                    /\ Goto(next)

\* one turn of the loop over the children, up to the call it makes; after
\* the last child, symt_normalize_function and the return
ParseSubprogramChild ==
    /\ Running("dwarf2_parse_subprogram", "children")
    /\ IF entries[Top.di].abbrev.have_child /\ Top.i < Len(ChildrenOf(Top.di))
       THEN LET child == ChildrenOf(Top.di)[Top.i + 1]
                tag   == entries[child].abbrev.tag
                next  == [Top EXCEPT !.i = @ + 1]
            IN  CASE tag \in {"DW_TAG_variable", "DW_TAG_formal_parameter"} ->
                       /\ Call(VariableFrame(child, Top.subpgm, 0), next)
                       /\ UNCHANGED <<symbols, nameIndex>>
                  [] tag = "DW_TAG_lexical_block" ->
                       /\ Call(BlockFrame(child, Top.subpgm, 0), next)
                       /\ UNCHANGED <<symbols, nameIndex>>
                  [] tag = "DW_TAG_inlined_subroutine" ->
                       /\ Call(InlinedFrame(child, Top.subpgm), next)
                       /\ UNCHANGED <<symbols, nameIndex>>
                  [] tag = "DW_TAG_label" ->
                       ParseSubprogramLabel(Top.subpgm, child, next)
                  [] OTHER ->
                       /\ Goto(next)
                       /\ UNCHANGED <<symbols, nameIndex>>
       ELSE /\ Return(entries[Top.di].symt)
            /\ UNCHANGED <<symbols, nameIndex>>
    /\ UNCHANGED <<sections, module, ctx, entries>>

\* dwarf2_parse_subprogram_block up to the loop over the children;
\* symt_open_func_block asserts that func is a function
ParseSubprogramBlock ==
    /\ Running("dwarf2_parse_subprogram_block", "enter")
    /\ \E residue \in StackResidue :
          LET di      == entries[Top.di]
              low_pc  == FindValue(ctx, di, "DW_AT_low_pc", Zero32, residue)
              high_pc == FindValue(ctx, di, "DW_AT_high_pc", Zero32, residue)
          IN  IF Top.subpgm.func = 0
              THEN Die("assertion failed") /\ UNCHANGED symbols
              ELSE /\ symbols' = Append(symbols,
                          symt_open_func_block(Top.subpgm.func, Top.parent_block,
                                               low_pc, sub32(high_pc, low_pc)))
                   /\ Goto([Top EXCEPT !.pc = "children", !.block = NewId])
    /\ UNCHANGED <<sections, module, ctx, entries, nameIndex>>

\* one turn of the loop over the children, up to the call it makes; after
\* the last child, symt_close_func_block
ParseSubprogramBlockChild ==
    /\ Running("dwarf2_parse_subprogram_block", "children")
    /\ IF entries[Top.di].abbrev.have_child /\ Top.i < Len(ChildrenOf(Top.di))
       THEN LET child == ChildrenOf(Top.di)[Top.i + 1]
                tag   == entries[child].abbrev.tag
                next  == [Top EXCEPT !.i = @ + 1]
            IN  /\ CASE tag = "DW_TAG_inlined_subroutine" ->
                          Call(InlinedFrame(child, Top.subpgm), next)
                     [] tag = "DW_TAG_variable" ->
                          Call(VariableFrame(child, Top.subpgm, Top.block), next)
                     [] tag = "DW_TAG_lexical_block" ->
                          Call(BlockFrame(child, Top.subpgm, Top.block), next)
                     [] OTHER -> Goto(next)
                /\ UNCHANGED symbols
       ELSE /\ symbols' = [symbols EXCEPT ![Top.block] = symt_close_func_block(@)]
            /\ ReturnVoid
    /\ UNCHANGED <<sections, module, ctx, entries, nameIndex>>

\* an inlined subroutine whose labels are passed over as well
ParseInlinedSubroutineChildMut ==
    /\ Running("dwarf2_parse_inlined_subroutine", "children")
    /\ IF entries[Top.di].abbrev.have_child /\ Top.i < Len(ChildrenOf(Top.di))
       THEN LET child == ChildrenOf(Top.di)[Top.i + 1]
                tag   == entries[child].abbrev.tag
                next  == [Top EXCEPT !.i = @ + 1]
            IN  CASE tag = "DW_TAG_inlined_subroutine" ->
                       /\ Call(InlinedFrame(child, Top.subpgm), next)
                       /\ UNCHANGED <<symbols, nameIndex>>
                  [] OTHER ->
                       /\ Goto(next)
                       /\ UNCHANGED <<symbols, nameIndex>>
       ELSE /\ ReturnVoid
            /\ UNCHANGED <<symbols, nameIndex>>
    /\ UNCHANGED <<sections, module, ctx, entries>>

\* dwarf2_parse_inlined_subroutine: one turn of the loop over the children
ParseInlinedSubroutineChild ==
    /\ Running("dwarf2_parse_inlined_subroutine", "children")
    /\ IF entries[Top.di].abbrev.have_child /\ Top.i < Len(ChildrenOf(Top.di))
       THEN LET child == ChildrenOf(Top.di)[Top.i + 1]
                tag   == entries[child].abbrev.tag
                next  == [Top EXCEPT !.i = @ + 1]
            IN  CASE tag = "DW_TAG_inlined_subroutine" ->
                       /\ Call(InlinedFrame(child, Top.subpgm), next)
                       /\ UNCHANGED <<symbols, nameIndex>>
                  [] tag = "DW_TAG_label" ->
                       ParseSubprogramLabel(Top.subpgm, child, next)
                  [] OTHER ->
                       /\ Goto(next)
                       /\ UNCHANGED <<symbols, nameIndex>>
       ELSE /\ ReturnVoid
            /\ UNCHANGED <<symbols, nameIndex>>
    /\ UNCHANGED <<sections, module, ctx, entries>>

(***************************************************************************)
(* The line number program interpreter.  A cursor is an offset into the   *)
(* line section; an access outside the section ends the process.           *)
(***************************************************************************)
DW_LNS_extended_op == 0
DW_LNS_copy == 1
DW_LNS_advance_pc == 2
DW_LNS_advance_line == 3
DW_LNS_set_file == 4
DW_LNS_set_column == 5
DW_LNS_negate_stmt == 6
DW_LNS_set_basic_block == 7
DW_LNS_const_add_pc == 8
DW_LNS_fixed_advance_pc == 9
DW_LNE_end_sequence == 1
DW_LNE_set_address == 2
DW_LNE_define_file == 3

\* the bytes of a section from offset off on; none outside the section
SectionFrom(sec, off) ==
    IF off >= 0 /\ off <= Len(sec) THEN SubSeq(sec, off + 1, Len(sec)) ELSE <<>>

HasBytes(ptr, n) == Len(ptr) >= n

\* a terminated string, a terminated varint starts at ptr
HasString(ptr) == \E i \in DOMAIN ptr : ptr[i] = 0

HasLeb(ptr) == \E i \in DOMAIN ptr : ptr[i] < 128

\* strlen(ptr)
StrLen(ptr) == (CHOOSE i \in DOMAIN ptr : ptr[i] = 0 /\ \A j \in 1..(i - 1) : ptr[j] # 0) - 1

\* the pointer after n varints; <<-1>> when they run out of the section
RECURSIVE SkipLebs(_, _)
SkipLebs(ptr, n) ==
    IF n = 0 THEN ptr
    ELSE IF ~HasLeb(ptr) THEN <<-1>>
    ELSE SkipLebs(Advance(ptr, dwarf2_leb128_length(ptr)), n - 1)

\* a * n modulo 2^32, n a byte
mul32(a, n) == W32((a.hi * n + (a.lo * n) \div Half) % Half, (a.lo * n) % Half)

\* source_new(module, dir, name): the id of a source file (source.c)
source_new(dir, name) == [dir |-> dir, name |-> name]

\* a directory of the include table: rel itself, or rel under compile_dir;
\* `slash` is the outcome of the test tmp[baselen - 1] != '/' when baselen
\* is 0 and the byte tested lies before the buffer
IncludeDir(rel, compile_dir, slash) ==
    IF rel[1] = 47 \/ compile_dir = NullString THEN rel
    ELSE compile_dir.str
         \o (IF (IF compile_dir.str = <<>> THEN slash
                 ELSE compile_dir.str[Len(compile_dir.str)] # 47)
             THEN <<47>> ELSE <<>>)
         \o rel

\* the loop over the include directories: [fault, dirs, ptr]
RECURSIVE LineDirs(_, _, _, _)
LineDirs(ptr, compile_dir, slash, dirs) ==
    IF ptr = <<>> \/ ~HasString(ptr)
    THEN [fault |-> "read past the section", dirs |-> dirs, ptr |-> ptr]
    ELSE IF ptr[1] = 0
    THEN [fault |-> "", dirs |-> dirs, ptr |-> Advance(ptr, 1)]
    ELSE LineDirs(Advance(ptr, StrLen(ptr) + 1), compile_dir, slash,
                  Append(dirs, IncludeDir(SubSeq(ptr, 1, StrLen(ptr)), compile_dir,
                                          slash)))

\* the loop over the file names: [fault, files, ptr]
RECURSIVE LineFiles(_, _, _)
LineFiles(ptr, dirs, files) ==
    LET File(name, dir_index, rest) ==
            IF rest = <<-1>>
            THEN [fault |-> "read past the section", files |-> files, ptr |-> ptr]
            ELSE IF dir_index.hi # 0 \/ dir_index.lo >= Len(dirs)
            THEN [fault |-> "null dereference", files |-> files, ptr |-> ptr]
            ELSE LineFiles(rest, dirs,
                           Append(files, source_new(dirs[dir_index.lo + 1], name)))
        Entry3(name, after) ==
            IF ~HasLeb(after)
            THEN [fault |-> "read past the section", files |-> files, ptr |-> ptr]
            ELSE File(name, dwarf2_get_leb128_as_unsigned(after).ret, SkipLebs(after, 3))
    IN  IF ptr = <<>> \/ ~HasString(ptr)
        THEN [fault |-> "read past the section", files |-> files, ptr |-> ptr]
        ELSE IF ptr[1] = 0
        THEN [fault |-> "", files |-> files, ptr |-> Advance(ptr, 1)]
        ELSE Entry3(SubSeq(ptr, 1, StrLen(ptr)), Advance(ptr, StrLen(ptr) + 1))

\* sizeof of the fields the header has before the length bytes of the
\* standard opcodes: length, version, header_len and five bytes
LineHeaderSize == 15

\* dwarf2_parse_line_numbers up to the loop over the sequences
ParseLineNumbers ==
    /\ Running("dwarf2_parse_line_numbers", "enter")
    /\ \E slash \in BOOLEAN :
       LET start == Signed32(Top.offset)
           hdr   == SectionFrom(sections.line, Signed32(Top.offset))
           opcode_base == hdr[15]
           Tables(f) ==
               IF f.fault # "" THEN Die(f.fault)
               ELSE Goto([fn |-> Top.fn, pc |-> "sequence",
                          data |-> Len(sections.line) - Len(f.ptr),
                          end_data |-> start + Signed32(dwarf2_get_u4(hdr)),
                          insn_size |-> hdr[11], default_stmt |-> hdr[12],
                          line_base |-> IF hdr[13] >= 128 THEN hdr[13] - 256 ELSE hdr[13],
                          line_range |-> hdr[14], opcode_base |-> opcode_base,
                          opcode_len |-> start + LineHeaderSize,
                          files |-> f.files])
           Dirs(d) ==
               IF d.fault # "" THEN Die(d.fault)
               ELSE Tables(LineFiles(d.ptr, d.dirs, <<>>))
       IN  IF ~sections.line_mapped THEN ReturnVoid
           ELSE IF ~HasBytes(hdr, LineHeaderSize) THEN Die("read past the section")
           ELSE IF Top.compile_dir.pfx = "*" THEN Die("wild pointer")
           ELSE Dirs(LineDirs(SectionFrom(sections.line,
                                          start + LineHeaderSize + opcode_base - 1),
                              Top.compile_dir, slash,
                              <<IF Top.compile_dir = NullString THEN <<46>>
                                ELSE Top.compile_dir.str>>))
    /\ UNCHANGED <<sections, module, ctx, entries, symbols, nameIndex>>

\* an interpreter whose registers are those of the program, not of a sequence
LineSequenceMut ==
    /\ Running("dwarf2_parse_line_numbers", "sequence")
    /\ IF Top.data < Top.end_data
       THEN IF "address" \in DOMAIN Top
            THEN Goto([Top EXCEPT !.pc = "opcode"])
            ELSE Goto([fn |-> Top.fn, pc |-> "opcode", data |-> Top.data,
                       end_data |-> Top.end_data, insn_size |-> Top.insn_size,
                       default_stmt |-> Top.default_stmt, line_base |-> Top.line_base,
                       line_range |-> Top.line_range, opcode_base |-> Top.opcode_base,
                       opcode_len |-> Top.opcode_len, files |-> Top.files,
                       address |-> Zero32, file |-> U32(1), line |-> U32(1),
                       is_stmt |-> Top.default_stmt, basic_block |-> FALSE])
       ELSE ReturnVoid
    /\ UNCHANGED <<sections, module, ctx, entries, symbols, nameIndex>>

\* while (traverse.data < traverse.end_data): the registers of a new sequence
LineSequence ==
    /\ Running("dwarf2_parse_line_numbers", "sequence")
    /\ IF Top.data < Top.end_data
       THEN Goto([fn |-> Top.fn, pc |-> "opcode", data |-> Top.data,
                  end_data |-> Top.end_data, insn_size |-> Top.insn_size,
                  default_stmt |-> Top.default_stmt, line_base |-> Top.line_base,
                  line_range |-> Top.line_range, opcode_base |-> Top.opcode_base,
                  opcode_len |-> Top.opcode_len, files |-> Top.files,
                  address |-> Zero32, file |-> U32(1), line |-> U32(1),
                  is_stmt |-> Top.default_stmt, basic_block |-> FALSE])
       ELSE ReturnVoid
    /\ UNCHANGED <<sections, module, ctx, entries, symbols, nameIndex>>

\* symt_find_nearest(module, addr) (symbol.c): the symbol with the nearest
\* address at or before addr whose range contains addr, 0 for none
symt_find_nearest(syms, addr) ==
    LET addressed == {i \in DOMAIN syms : syms[i].tag \in {"SymTagFunction", "SymTagData"}
                                          /\ ~lt32(addr, syms[i].address)}
        Within(i) == IF lt32(sub32(addr, syms[i].address), syms[i].size) THEN i ELSE 0
    IN  IF addressed = {} THEN 0
        ELSE Within(CHOOSE i \in addressed :
                       \A j \in addressed :
                          \/ lt32(syms[j].address, syms[i].address)
                          \/ (syms[j].address = syms[i].address /\ i <= j))

\* an interpreter that attaches every fact to the last function of the table
dwarf2_set_line_numberMut(syms, address, v, file, line) ==
    LET funcs == {i \in DOMAIN syms : syms[i].tag = "SymTagFunction"}
        Add(idx) ==
            [syms EXCEPT ![idx] =
                symt_add_func_line(@, v[file.lo], line,
                                   sub32(address, syms[idx].address))]
    IN  IF file = Zero32 \/ file.hi # 0 \/ file.lo > Len(v) \/ funcs = {} THEN syms
        ELSE Add(CHOOSE i \in funcs : \A j \in funcs : j <= i)

\* dwarf2_set_line_number(module, address, v, file, line): the symbols after
dwarf2_set_line_number(syms, address, v, file, line) ==
    LET Add(idx) ==
            IF idx = 0 \/ syms[idx].tag # "SymTagFunction" THEN syms
            ELSE [syms EXCEPT ![idx] =
                     symt_add_func_line(@, v[file.lo], line,
                                        sub32(address, syms[idx].address))]
    IN  IF file = Zero32 \/ file.hi # 0 \/ file.lo > Len(v) THEN syms
        ELSE Add(symt_find_nearest(syms, address))

\* what an opcode at ptr reads: [ok, n, v, ext], the bytes it takes with
\* its operands, the operand's value and the extended opcode (-1 for none);
\* ok is FALSE when they run out of the section
LineOperands(ptr, f) ==
    LET op == ptr[1]
        Bad == [ok |-> FALSE, n |-> 0, v |-> Zero32, ext |-> -1]
        Leb(l) == [ok |-> TRUE, n |-> 1 + l.end, v |-> l.ret, ext |-> -1]
        Skipped(rest) ==
            IF rest = <<-1>> THEN Bad
            ELSE [ok |-> TRUE, n |-> Len(ptr) - Len(rest), v |-> Zero32, ext |-> -1]
        Extended(q) ==
            \* q is at the extended opcode
            IF q = <<>> THEN Bad
            ELSE IF q[1] = DW_LNE_set_address
            THEN IF HasBytes(q, 1 + ctx.word_size)
                 THEN [ok |-> TRUE, n |-> Len(ptr) - Len(q) + 1 + ctx.word_size,
                       v |-> dwarf2_get_addr(Advance(q, 1), ctx.word_size),
                       ext |-> q[1]]
                 ELSE Bad
            ELSE IF q[1] = DW_LNE_define_file
            THEN IF HasString(Advance(q, 1))
                 THEN [Skipped(SkipLebs(Advance(q, 2 + StrLen(Advance(q, 1))), 3))
                          EXCEPT !.ext = q[1]]
                 ELSE Bad
            ELSE [ok |-> TRUE, n |-> Len(ptr) - Len(q) + 1, v |-> Zero32, ext |-> q[1]]
        Counted(at) ==
            \* at is at opcode_len[opcode]
            IF at = <<>> THEN Bad ELSE Skipped(SkipLebs(Advance(ptr, 1), at[1]))
    IN  IF op >= f.opcode_base
           \/ op \in {DW_LNS_copy, DW_LNS_negate_stmt, DW_LNS_set_basic_block,
                      DW_LNS_const_add_pc}
        THEN [ok |-> TRUE, n |-> 1, v |-> Zero32, ext |-> -1]
        ELSE IF op \in {DW_LNS_advance_pc, DW_LNS_set_file, DW_LNS_set_column}
        THEN IF HasLeb(Advance(ptr, 1))
             THEN Leb(dwarf2_get_leb128_as_unsigned(Advance(ptr, 1))) ELSE Bad
        ELSE IF op = DW_LNS_advance_line
        THEN IF HasLeb(Advance(ptr, 1))
             THEN Leb(dwarf2_get_leb128_as_signed(Advance(ptr, 1))) ELSE Bad
        ELSE IF op = DW_LNS_fixed_advance_pc
        THEN IF HasBytes(ptr, 3)
             THEN [ok |-> TRUE, n |-> 3, v |-> U32(dwarf2_get_u2(Advance(ptr, 1))),
                   ext |-> -1]
             ELSE Bad
        ELSE IF op = DW_LNS_extended_op
        THEN IF HasLeb(Advance(ptr, 1))
             THEN Extended(Advance(ptr, 1 + dwarf2_leb128_length(Advance(ptr, 1))))
             ELSE Bad
        ELSE Counted(SectionFrom(sections.line, f.opcode_len + op))

\* an interpreter whose special opcodes advance the address by the quotient
\* alone
LineRegistersMut(f, op, o) ==
    IF op >= f.opcode_base
    THEN [f EXCEPT !.address = add32(@, U32((op - f.opcode_base) \div f.line_range)),
                   !.line = add32(@, FromSigned32(f.line_base
                                       + ((op - f.opcode_base) % f.line_range))),
                   !.basic_block = TRUE]
    ELSE f

\* the registers after the opcode op with operands o: the frame f with its
\* address, file, line, is_stmt and basic_block updated
LineRegisters(f, op, o) ==
    IF op >= f.opcode_base
    THEN [f EXCEPT !.address = add32(@, U32(((op - f.opcode_base) \div f.line_range)
                                           * f.insn_size)),
                   !.line = add32(@, FromSigned32(f.line_base
                                       + ((op - f.opcode_base) % f.line_range))),
                   !.basic_block = TRUE]
    ELSE CASE op = DW_LNS_copy -> [f EXCEPT !.basic_block = FALSE]
           [] op = DW_LNS_advance_pc -> [f EXCEPT !.address = add32(@, mul32(o.v, f.insn_size))]
           [] op = DW_LNS_advance_line -> [f EXCEPT !.line = add32(@, o.v)]
           [] op = DW_LNS_set_file -> [f EXCEPT !.file = o.v]
           [] op = DW_LNS_negate_stmt -> [f EXCEPT !.is_stmt = IF @ = 0 THEN 1 ELSE 0]
           [] op = DW_LNS_set_basic_block -> [f EXCEPT !.basic_block = TRUE]
           [] op = DW_LNS_const_add_pc ->
                 [f EXCEPT !.address = add32(@, U32(((255 - f.opcode_base)
                                                     \div f.line_range) * f.insn_size))]
           [] op = DW_LNS_fixed_advance_pc -> [f EXCEPT !.address = add32(@, o.v)]
           [] op = DW_LNS_extended_op /\ o.ext = DW_LNE_set_address ->
                 [f EXCEPT !.address = add32(module.BaseOfImage, o.v)]
           [] OTHER -> f

\* an interpreter that records a row when the address is set
LineEmitsMut(f, op, o) ==
    \/ op >= f.opcode_base
    \/ op = DW_LNS_copy
    \/ op = DW_LNS_extended_op /\ o.ext \in {DW_LNE_end_sequence, DW_LNE_set_address}

\* the opcodes after which dwarf2_set_line_number is called
LineEmits(f, op, o) ==
    \/ op >= f.opcode_base
    \/ op = DW_LNS_copy
    \/ op = DW_LNS_extended_op /\ o.ext = DW_LNE_end_sequence

LineDivides(f, op) == op >= f.opcode_base \/ op = DW_LNS_const_add_pc

\* one turn of while (!end_sequence): one opcode
LineOpcode ==
    /\ Running("dwarf2_parse_line_numbers", "opcode")
    /\ LET ptr == SectionFrom(sections.line, Top.data)
           Done(op, o, f) ==
               /\ symbols' = IF LineEmits(Top, op, o)
                             THEN dwarf2_set_line_number(symbols, f.address, f.files,
                                                         f.file, f.line)
                             ELSE symbols
               /\ Goto([f EXCEPT !.data = @ + o.n,
                                 !.pc = IF op = DW_LNS_extended_op
                                           /\ o.ext = DW_LNE_end_sequence
                                        THEN "sequence" ELSE "opcode"])
           Step(op, o) ==
               IF ~o.ok THEN Die("read past the section") /\ UNCHANGED symbols
               ELSE IF LineDivides(Top, op) /\ Top.line_range = 0
               THEN Die("division by zero") /\ UNCHANGED symbols
               ELSE Done(op, o, LineRegisters(Top, op, o))
       IN  IF ptr = <<>> THEN Die("read past the section") /\ UNCHANGED symbols
           ELSE Step(ptr[1], LineOperands(ptr, Top))
    /\ UNCHANGED <<sections, module, ctx, entries, nameIndex>>

(***************************************************************************)
(* The abbreviation table and the tree walker.  A cursor is an offset into *)
(* its section; an entry's raw attribute positions are pointers.  The      *)
(* numbers of the tags, attributes and forms are those of dwarf.h.         *)
(***************************************************************************)
TagNames ==
    (1 :> "DW_TAG_array_type" @@ 2 :> "DW_TAG_class_type"
     @@ 4 :> "DW_TAG_enumeration_type" @@ 5 :> "DW_TAG_formal_parameter"
     @@ 10 :> "DW_TAG_label" @@ 11 :> "DW_TAG_lexical_block" @@ 13 :> "DW_TAG_member"
     @@ 15 :> "DW_TAG_pointer_type" @@ 16 :> "DW_TAG_reference_type"
     @@ 17 :> "DW_TAG_compile_unit" @@ 18 :> "DW_TAG_string_type"
     @@ 19 :> "DW_TAG_structure_type" @@ 21 :> "DW_TAG_subroutine_type"
     @@ 22 :> "DW_TAG_typedef" @@ 23 :> "DW_TAG_union_type"
     @@ 29 :> "DW_TAG_inlined_subroutine" @@ 33 :> "DW_TAG_subrange_type"
     @@ 36 :> "DW_TAG_base_type" @@ 38 :> "DW_TAG_const_type"
     @@ 40 :> "DW_TAG_enumerator" @@ 46 :> "DW_TAG_subprogram"
     @@ 52 :> "DW_TAG_variable" @@ 53 :> "DW_TAG_volatile_type")

AttributeNames ==
    (1 :> "DW_AT_sibling" @@ 2 :> "DW_AT_location" @@ 3 :> "DW_AT_name"
     @@ 11 :> "DW_AT_byte_size" @@ 12 :> "DW_AT_bit_offset" @@ 13 :> "DW_AT_bit_size"
     @@ 16 :> "DW_AT_stmt_list" @@ 17 :> "DW_AT_low_pc" @@ 18 :> "DW_AT_high_pc"
     @@ 19 :> "DW_AT_language" @@ 27 :> "DW_AT_comp_dir" @@ 28 :> "DW_AT_const_value"
     @@ 34 :> "DW_AT_lower_bound" @@ 37 :> "DW_AT_producer"
     @@ 47 :> "DW_AT_upper_bound" @@ 55 :> "DW_AT_count"
     @@ 56 :> "DW_AT_data_member_location" @@ 60 :> "DW_AT_declaration"
     @@ 62 :> "DW_AT_encoding" @@ 63 :> "DW_AT_external" @@ 64 :> "DW_AT_frame_base"
     @@ 73 :> "DW_AT_type")

FormNames ==
    (1 :> "DW_FORM_addr" @@ 3 :> "DW_FORM_block2" @@ 4 :> "DW_FORM_block4"
     @@ 5 :> "DW_FORM_data2" @@ 6 :> "DW_FORM_data4" @@ 7 :> "DW_FORM_data8"
     @@ 8 :> "DW_FORM_string" @@ 9 :> "DW_FORM_block" @@ 10 :> "DW_FORM_block1"
     @@ 11 :> "DW_FORM_data1" @@ 12 :> "DW_FORM_flag" @@ 13 :> "DW_FORM_sdata"
     @@ 14 :> "DW_FORM_strp" @@ 15 :> "DW_FORM_udata" @@ 16 :> "DW_FORM_ref_addr"
     @@ 17 :> "DW_FORM_ref1" @@ 18 :> "DW_FORM_ref2" @@ 19 :> "DW_FORM_ref4"
     @@ 20 :> "DW_FORM_ref8" @@ 21 :> "DW_FORM_ref_udata" @@ 22 :> "DW_FORM_indirect")

\* the name the model gives the number n of a table; a number the header
\* does not name is named after itself
NameIn(table, n) ==
    IF n.hi = 0 /\ n.lo \in DOMAIN table THEN table[n.lo] ELSE ToString(n.lo)

\* the attribute/form pairs of a declaration, up to the pair of attribute
\* 0: [fault, attrs, ptr]
RECURSIVE AbbrevAttrs(_, _)
AbbrevAttrs(ptr, attrs) ==
    LET Pair(attribute, form) ==
            IF attribute.ret = Zero32
            THEN [fault |-> "", attrs |-> attrs,
                  ptr |-> Advance(ptr, attribute.end + form.end)]
            ELSE AbbrevAttrs(Advance(ptr, attribute.end + form.end),
                             Append(attrs,
                                    [attribute |-> NameIn(AttributeNames, attribute.ret),
                                     form |-> NameIn(FormNames, form.ret)]))
        Form(attribute) ==
            IF ~HasLeb(Advance(ptr, attribute.end))
            THEN [fault |-> "read past the section", attrs |-> attrs, ptr |-> ptr]
            ELSE Pair(attribute,
                      dwarf2_get_leb128_as_unsigned(Advance(ptr, attribute.end)))
    IN  IF ~HasLeb(ptr)
        THEN [fault |-> "read past the section", attrs |-> attrs, ptr |-> ptr]
        ELSE Form(dwarf2_get_leb128_as_unsigned(ptr))

\* dwarf2_parse_abbrev_set(abbrev_ctx, &ctx->abbrev_table, pool) on entry;
\* data is the cursor of abbrev_ctx
AbbrevFrame(offset) ==
    [fn |-> "dwarf2_parse_abbrev_set", pc |-> "loop", data |-> offset]

\* one turn of the loop over the declarations.  The table is a function
\* from the entry codes; sparse_array_add gives NULL for a key the array
\* has.
ParseAbbrevSet ==
    /\ Running("dwarf2_parse_abbrev_set", "loop")
    /\ \E ptr \in {SectionFrom(sections.abbrev, Top.data)} :
          LET Declared(code, tag, have_child, a) ==
                  IF a.fault # "" THEN Die(a.fault) /\ UNCHANGED ctx
                  ELSE /\ ctx' = [ctx EXCEPT !.abbrev_table =
                                    @ @@ (code :> [entry_code |-> code,
                                                   tag |-> NameIn(TagNames, tag.ret),
                                                   have_child |-> have_child # 0,
                                                   attrs |-> a.attrs])]
                       /\ Goto([Top EXCEPT !.data = Len(sections.abbrev) - Len(a.ptr)])
              Tag(code, q, tag) ==
                  \* q is at the tag
                  IF ~HasBytes(q, tag.end + 1)
                  THEN Die("read past the section") /\ UNCHANGED ctx
                  ELSE Declared(code, tag, q[tag.end + 1],
                                AbbrevAttrs(Advance(q, tag.end + 1), <<>>))
              Code(code) ==
                  IF code.ret = Zero32 THEN ReturnVoid /\ UNCHANGED ctx
                  ELSE IF code.ret \in DOMAIN ctx.abbrev_table
                  THEN Die("assertion failed") /\ UNCHANGED ctx
                  ELSE IF ~HasLeb(Advance(ptr, code.end))
                  THEN Die("read past the section") /\ UNCHANGED ctx
                  ELSE Tag(code.ret, Advance(ptr, code.end),
                           dwarf2_get_leb128_as_unsigned(Advance(ptr, code.end)))
          IN  IF Top.data >= Len(sections.abbrev) THEN ReturnVoid /\ UNCHANGED ctx
              ELSE IF Top.data < 0 \/ ~HasLeb(ptr)
              THEN Die("read past the section") /\ UNCHANGED ctx
              ELSE Code(dwarf2_get_leb128_as_unsigned(ptr))
    /\ UNCHANGED <<sections, module, entries, symbols, nameIndex>>

\* dwarf2_swallow_attribute: the bytes the cursor moves over for a form, -1
\* when what it reads is out of the section
dwarf2_swallow_attribute(ptr, form, word_size) ==
    LET Block(n, size) == IF HasBytes(ptr, n) THEN n + Signed32(size) ELSE -1
    IN  CASE form \in {"DW_FORM_ref_addr", "DW_FORM_addr"} -> word_size
          [] form \in {"DW_FORM_flag", "DW_FORM_data1", "DW_FORM_ref1"} -> 1
          [] form \in {"DW_FORM_data2", "DW_FORM_ref2"} -> 2
          [] form \in {"DW_FORM_data4", "DW_FORM_ref4", "DW_FORM_strp"} -> 4
          [] form \in {"DW_FORM_data8", "DW_FORM_ref8"} -> 8
          [] form \in {"DW_FORM_sdata", "DW_FORM_ref_udata", "DW_FORM_udata"} ->
                IF HasLeb(ptr) THEN dwarf2_leb128_length(ptr) ELSE -1
          [] form = "DW_FORM_string" -> IF HasString(ptr) THEN StrLen(ptr) + 1 ELSE -1
          [] form = "DW_FORM_block" ->
                IF HasLeb(ptr)
                THEN dwarf2_leb128_length(ptr)
                     + Signed32(dwarf2_get_leb128_as_unsigned(ptr).ret)
                ELSE -1
          [] form = "DW_FORM_block1" -> Block(1, U32(dwarf2_get_byte(ptr)))
          [] form = "DW_FORM_block2" -> Block(2, U32(dwarf2_get_u2(ptr)))
          [] form = "DW_FORM_block4" -> Block(4, dwarf2_get_u4(ptr))
          [] OTHER -> 0

\* the loop over the attributes of a declaration: [data, cursor, fault], the
\* raw positions and the cursor after
RECURSIVE SwallowAttributes(_, _, _, _, _)
SwallowAttributes(attrs, i, cursor, word_size, data) ==
    LET Step(step) ==
            IF step < 0 THEN [data |-> data, cursor |-> cursor, fault |-> TRUE]
            ELSE SwallowAttributes(attrs, i + 1, cursor + step, word_size,
                                   Append(data, SectionFrom(sections.debug, cursor)))
    IN  IF i > Len(attrs) THEN [data |-> data, cursor |-> cursor, fault |-> FALSE]
        ELSE Step(dwarf2_swallow_attribute(SectionFrom(sections.debug, cursor),
                                           attrs[i].form, word_size))

\* dwarf2_read_one_debug_info(ctx, traverse, pdi) on entry.  di is the
\* entry it adds, child what the call for a child stored through &child.
ReadFrame ==
    [fn |-> "dwarf2_read_one_debug_info", pc |-> "enter", di |-> 0, child |-> 0]

\* the caller's variable that pdi points to
Unwritten == -1

\* *pdi = di; return TRUE;
ReturnThrough(di) ==
    /\ stack' = <<[Callers[1] EXCEPT !.child = di]>> \o Tail(Callers)
    /\ retval' = 1
    /\ UNCHANGED status

\* from the test of DW_AT_sibling to the return; cursor is traverse->data
SiblingAndReturn(di, entry, cursor) ==
    \E residue \in StackResidue :
       \E sibling \in {dwarf2_find_attribute(ctx, entry, "DW_AT_sibling", residue)} :
          /\ ctx' = [ctx EXCEPT !.traverse.data =
                        IF sibling.found /\ U32(cursor) # sibling.attr.uvalue
                        THEN Signed32(sibling.attr.uvalue) ELSE cursor]
          /\ ReturnThrough(di)

\* dwarf2_read_one_debug_info up to the loop over the children; for an
\* entry without children, up to the return
ReadOneDebugInfo ==
    /\ Running("dwarf2_read_one_debug_info", "enter")
    /\ \E ptr \in {SectionFrom(sections.debug, ctx.traverse.data)} :
          LET offset == ctx.traverse.data
              Added(abbrev, a) ==
                  \* a is the result of the loop over the attributes
                  IF a.fault THEN Die("read past the section") /\ UNCHANGED <<ctx, entries>>
                  ELSE \E entry \in {[abbrev |-> abbrev, symt |-> 0, data |-> a.data,
                                      children |-> <<>>]} :
                          /\ entries' = entries @@ (offset :> entry)
                          /\ IF abbrev.have_child
                             THEN /\ ctx' = [ctx EXCEPT !.traverse.data = a.cursor]
                                  /\ Goto([Top EXCEPT !.pc = "children", !.di = offset])
                             ELSE SiblingAndReturn(offset, entry, a.cursor)
              Code(code) ==
                  IF code.ret = Zero32
                  THEN /\ ctx' = [ctx EXCEPT !.traverse.data = offset + code.end]
                       /\ ReturnThrough(0)
                       /\ UNCHANGED entries
                  ELSE IF code.ret \notin DOMAIN ctx.abbrev_table \/ offset \in DOMAIN entries
                  THEN /\ ctx' = [ctx EXCEPT !.traverse.data = offset + code.end]
                       /\ Return(0)
                       /\ UNCHANGED entries
                  ELSE Added(ctx.abbrev_table[code.ret],
                             SwallowAttributes(ctx.abbrev_table[code.ret].attrs, 1,
                                               offset + code.end, ctx.traverse.word_size,
                                               <<>>))
          IN  IF ~HasLeb(ptr) THEN Die("read past the section") /\ UNCHANGED <<ctx, entries>>
              ELSE Code(dwarf2_get_leb128_as_unsigned(ptr))
    /\ UNCHANGED <<sections, module, symbols, nameIndex>>

\* the test of the loop over the children, up to the call for a child;
\* out of the loop, up to the return
ReadOneDebugInfoChild ==
    /\ Running("dwarf2_read_one_debug_info", "children")
    /\ IF ctx.traverse.data < ctx.traverse.end_data
       THEN /\ Call(ReadFrame, [Top EXCEPT !.pc = "child"])
            /\ UNCHANGED ctx
       ELSE SiblingAndReturn(Top.di, entries[Top.di], ctx.traverse.data)
    /\ UNCHANGED <<sections, module, entries, symbols, nameIndex>>

\* a walker whose loop over the children goes on after a code 0
ReadOneDebugInfoAddMut ==
    /\ Running("dwarf2_read_one_debug_info", "child")
    /\ IF retval = 0
       THEN Return(0) /\ UNCHANGED <<ctx, entries>>
       ELSE IF Top.child = 0
       THEN /\ Goto([Top EXCEPT !.pc = "children"])
            /\ UNCHANGED <<ctx, entries>>
       ELSE /\ entries' = [entries EXCEPT ![Top.di].children = Append(@, Top.child)]
            /\ Goto([Top EXCEPT !.pc = "children"])
            /\ UNCHANGED ctx
    /\ UNCHANGED <<sections, module, symbols, nameIndex>>

\* from the return of the call for a child to the next turn of the loop
ReadOneDebugInfoAdd ==
    /\ Running("dwarf2_read_one_debug_info", "child")
    /\ IF retval = 0
       THEN Return(0) /\ UNCHANGED <<ctx, entries>>
       ELSE IF Top.child = 0
       THEN SiblingAndReturn(Top.di, entries[Top.di], ctx.traverse.data)
            /\ UNCHANGED entries
       ELSE /\ entries' = [entries EXCEPT ![Top.di].children = Append(@, Top.child)]
            /\ Goto([Top EXCEPT !.pc = "children"])
            /\ UNCHANGED ctx
    /\ UNCHANGED <<sections, module, symbols, nameIndex>>

(***************************************************************************)
(* The compilation unit                                                    *)
(***************************************************************************)
\* dwarf2_parse_compilation_unit from the test of the root entry's tag to the
\* loop over the children; BOOL is 1 or 0
CompilationUnitRoot ==
    /\ Running("dwarf2_parse_compilation_unit", "root")
    /\ \E residue \in StackResidue :
          LET di   == entries[Top.di]
              DirOf(dir) == IF dir.found THEN NameOf(dir.attr) ELSE NullString
          IN  \E name \in {dwarf2_find_name(ctx, di, "compiland", nameIndex.index, residue)},
                 comp_dir \in {DirOf(dwarf2_find_attribute(ctx, di, "DW_AT_comp_dir",
                                                           residue))} :
              IF di.abbrev.tag = "DW_TAG_compile_unit"
              THEN /\ SetNewSymbol(Top.di, symt_new_compiland(name.name, comp_dir))
                   /\ StoreIndex(name.index)
                   /\ Goto([Top EXCEPT !.pc = "children", !.i = 0,
                                       !.comp_dir = comp_dir])
              ELSE /\ Return(0)
                   /\ UNCHANGED <<entries, symbols, nameIndex>>
    /\ UNCHANGED <<sections, module, ctx>>

LineNumbersFrame(compile_dir, offset) ==
    [fn |-> "dwarf2_parse_line_numbers", pc |-> "enter", compile_dir |-> compile_dir,
     offset |-> offset]

\* one turn of the loop over the root's children; after the last child, the
\* line numbers
CompilationUnitChild ==
    /\ Running("dwarf2_parse_compilation_unit", "children")
    /\ \E residue \in StackResidue :
          LET di == entries[Top.di]
              stmt_list == dwarf2_find_attribute(ctx, di, "DW_AT_stmt_list", residue)
          IN  IF di.abbrev.have_child /\ Top.i < Len(di.children)
              THEN Call(LoadFrame(di.children[Top.i + 1], di.symt),
                        [Top EXCEPT !.i = @ + 1])
              ELSE IF stmt_list.found
              THEN Call(LineNumbersFrame(Top.comp_dir, stmt_list.attr.uvalue),
                        [Top EXCEPT !.pc = "return"])
              ELSE Return(1)
    /\ UNCHANGED <<sections, module, ctx, entries, symbols, nameIndex>>

\* ret = TRUE; return ret;
CompilationUnitReturn ==
    /\ Running("dwarf2_parse_compilation_unit", "return")
    /\ Return(1)
    /\ UNCHANGED <<sections, module, ctx, entries, symbols, nameIndex>>

CompilationUnitFrame(root) ==
    [fn |-> "dwarf2_parse_compilation_unit", pc |-> "root", di |-> root, i |-> 0,
     comp_dir |-> NullString]

\* a dwarf2_comp_unit_t
CompUnit(length, version, abbrev_offset, word_size) ==
    [length |-> length, version |-> version, abbrev_offset |-> abbrev_offset,
     word_size |-> word_size]

\* sizeof(dwarf2_comp_unit_stream_t)
CompUnitStreamSize == 11

\* the header at ptr
CompUnitAt(ptr) ==
    CompUnit(dwarf2_get_u4(ptr), dwarf2_get_u2(Advance(ptr, 4)),
             dwarf2_get_u4(Advance(ptr, 6)), dwarf2_get_byte(Advance(ptr, 10)))

\* dwarf2_parse_compilation_unit(sections, comp_unit, module, thunks,
\* comp_unit_cursor) on entry
CompilationUnitCall(comp_unit, cursor) ==
    [fn |-> "dwarf2_parse_compilation_unit", pc |-> "enter", di |-> 0, i |-> 0,
     comp_dir |-> NullString, comp_unit |-> comp_unit, cursor |-> cursor,
     child |-> Unwritten]

\* a decoder that takes every version from 2 on
VersionSupportedMut(comp_unit) == comp_unit.version >= 2

\* the test of comp_unit->version
VersionSupported(comp_unit) == comp_unit.version = 2

\* dwarf2_parse_compilation_unit from its entry to the call of
\* dwarf2_parse_abbrev_set
CompilationUnitEnter ==
    /\ Running("dwarf2_parse_compilation_unit", "enter")
    /\ IF ~VersionSupported(Top.comp_unit)
       THEN /\ Return(0)
            /\ UNCHANGED ctx
       ELSE /\ ctx' = [word_size |-> Top.comp_unit.word_size,
                       ref_offset |-> U32(Top.cursor),
                       section_string |-> sections.string, thunks |-> ctx.thunks,
                       abbrev_table |-> <<>>,
                       traverse |->
                          [data |-> Top.cursor + CompUnitStreamSize,
                           word_size |-> Top.comp_unit.word_size,
                           end_data |-> Top.cursor
                              + Signed32(add32(Top.comp_unit.length, U32(4)))]]
            /\ Call(AbbrevFrame(Signed32(Top.comp_unit.abbrev_offset)),
                    [Top EXCEPT !.pc = "read"])
    /\ UNCHANGED <<sections, module, entries, symbols, nameIndex>>

\* sparse_array_init(&ctx.debug_info_table) and the call of
\* dwarf2_read_one_debug_info(&ctx, &traverse, &di); di is not initialised
CompilationUnitRead ==
    /\ Running("dwarf2_parse_compilation_unit", "read")
    /\ entries' = <<>>
    /\ Call(ReadFrame, [Top EXCEPT !.pc = "loaded", !.child = Unwritten])
    /\ UNCHANGED <<sections, module, ctx, symbols, nameIndex>>

\* di->abbrev of the test of the root entry's tag.  What
\* dwarf2_read_one_debug_info returned is not looked at: when it returned
\* FALSE di was never written, and the test reads through whatever di holds
\* (an address that is not mapped, one of memory whose tag is another, one
\* of an entry of the table).
CompilationUnitLoaded ==
    /\ Running("dwarf2_parse_compilation_unit", "loaded")
    /\ IF Top.child = 0 THEN Die("null dereference")
       ELSE IF Top.child # Unwritten
       THEN Goto([Top EXCEPT !.pc = "root", !.di = Top.child])
       ELSE \/ Die("wild pointer")
            \/ Return(0)
            \/ \E d \in DOMAIN entries : Goto([Top EXCEPT !.pc = "root", !.di = d])
    /\ UNCHANGED <<sections, module, ctx, entries, symbols, nameIndex>>

(***************************************************************************)
(* dwarf2_parse                                                            *)
(***************************************************************************)
ParseFrame == [fn |-> "dwarf2_parse", pc |-> "loop", cursor |-> 0,
               comp_unit |-> CompUnit(Zero32, 0, Zero32, 0)]

\* the module's description after dwarf2_parse
Described(m) ==
    [BaseOfImage |-> m.BaseOfImage, SymType |-> "SymDia", CVSig |-> "DWAR",
     LineNumbers |-> TRUE, GlobalSymbols |-> TRUE, TypeInfo |-> TRUE,
     SourceIndexed |-> TRUE, Publics |-> TRUE]

\* a driver that returns what the last unit returned
ParseMut ==
    /\ Running("dwarf2_parse", "loop")
    /\ IF Top.cursor < Len(sections.debug)
       THEN /\ \E ptr \in {SectionFrom(sections.debug, Top.cursor)} :
                  IF Top.cursor < 0 \/ ~HasBytes(ptr, CompUnitStreamSize)
                  THEN Die("read past the section")
                  ELSE Call(CompilationUnitCall(CompUnitAt(ptr), Top.cursor),
                            [Top EXCEPT !.pc = "advance", !.comp_unit = CompUnitAt(ptr)])
            /\ UNCHANGED module
       ELSE /\ module' = Described(module)
            /\ Return(retval)
    /\ UNCHANGED <<sections, ctx, entries, symbols, nameIndex>>

\* the test of the loop; in the loop, the header read and the call
Parse ==
    /\ Running("dwarf2_parse", "loop")
    /\ IF Top.cursor < Len(sections.debug)
       THEN /\ \E ptr \in {SectionFrom(sections.debug, Top.cursor)} :
                  IF Top.cursor < 0 \/ ~HasBytes(ptr, CompUnitStreamSize)
                  THEN Die("read past the section")
                  ELSE Call(CompilationUnitCall(CompUnitAt(ptr), Top.cursor),
                            [Top EXCEPT !.pc = "advance", !.comp_unit = CompUnitAt(ptr)])
            /\ UNCHANGED module
       ELSE /\ module' = Described(module)
            /\ Return(1)
    /\ UNCHANGED <<sections, ctx, entries, symbols, nameIndex>>

\* comp_unit_cursor += comp_unit.length + sizeof(unsigned);
ParseAdvance ==
    /\ Running("dwarf2_parse", "advance")
    /\ Goto([Top EXCEPT !.pc = "loop",
                        !.cursor = @ + Signed32(add32(Top.comp_unit.length, U32(4)))])
    /\ UNCHANGED <<sections, module, ctx, entries, symbols, nameIndex>>

(***************************************************************************)
(* SpecSym: the symbol builder over the entry tree of one unit.  The units *)
(* are the trees the tree walker leaves for a producer's output: each      *)
(* entry with its declaration and the raw bytes of its attributes.         *)
(***************************************************************************)
At(attribute, form, raw) == [attribute |-> attribute, form |-> form, raw |-> raw]

\* an entry as dwarf2_read_one_debug_info leaves it
Entry(tag, have_child, attrs, children) ==
    [abbrev |-> [entry_code |-> 1, tag |-> tag, have_child |-> have_child,
                 attrs |-> [i \in 1..Len(attrs) |->
                              [attribute |-> attrs[i].attribute, form |-> attrs[i].form]]],
     symt |-> 0,
     data |-> [i \in 1..Len(attrs) |-> attrs[i].raw],
     children |-> children]

\* a word as the producer writes it (little endian), and the bytes after it
LE4(w) == <<w.lo % 256, w.lo \div 256, w.hi % 256, w.hi \div 256>>

TypeRef(offset) == At("DW_AT_type", "DW_FORM_ref4", LE4(U32(offset)) \o <<0>>)

NameAt(str) == At("DW_AT_name", "DW_FORM_string", str \o <<0, 1>>)

Data4(attribute, w) == At(attribute, "DW_FORM_data4", LE4(w) \o <<0>>)

Flag(attribute, b) == At(attribute, "DW_FORM_flag", <<b, 0>>)

Block1(attribute, bytes) == At(attribute, "DW_FORM_block1", <<Len(bytes)>> \o bytes \o <<0>>)

\* the root entry is the first of the unit, after the 11 bytes of the header
RootOffset == 11

\* the offsets of the top-level entries, in order, and of an entry's children
TypeOffset(k) == RootOffset + k
ChildOffset(k, j) == RootOffset + 10 * k + j

RootEntry(children) ==
    Entry("DW_TAG_compile_unit", TRUE, <<NameAt(<<97, 46, 99>>)>>, children)

\* the entries of a unit: those of `tree` (a function from offsets to
\* entries) under a compile-unit root whose children are `top`
UnitOf(top, tree) ==
    [o \in DOMAIN tree \cup {RootOffset} |->
        IF o = RootOffset THEN RootEntry(top) ELSE tree[o]]

\* Type graphs: NumTypes top-level type entries, each of a tag of GraphTags
\* and referring to any of them, to none (0) or to an offset at which the
\* unit has no entry (NumTypes + 1); a structure has one member, of the type
\* the structure's node refers to
NumTypes == 2

GraphRefs == 0..(NumTypes + 1)

GraphTags == {"DW_TAG_pointer_type", "DW_TAG_structure_type", "DW_TAG_typedef",
              "DW_TAG_const_type"}

Struct(k, members) ==
    Entry("DW_TAG_structure_type", TRUE, <<NameAt(<<83, 48 + k>>)>>, members)

Member(type) ==
    Entry("DW_TAG_member", FALSE, <<NameAt(<<109>>), TypeRef(type)>>, <<>>)

GraphNode(k, tag, ref) ==
    LET type == IF ref = 0 THEN <<>> ELSE <<TypeRef(TypeOffset(ref))>>
    IN  CASE tag = "DW_TAG_structure_type" ->
                Struct(k, IF ref = 0 THEN <<>> ELSE <<ChildOffset(k, 1)>>)
          [] tag = "DW_TAG_typedef" ->
                Entry(tag, FALSE, <<NameAt(<<84, 48 + k>>)>> \o type, <<>>)
          [] OTHER -> Entry(tag, FALSE, type, <<>>)

GraphUnit(tags, refs) ==
    LET members == {k \in 1..NumTypes : tags[k] = "DW_TAG_structure_type" /\ refs[k] # 0}
        tree == [o \in {TypeOffset(k) : k \in 1..NumTypes}
                       \cup {ChildOffset(k, 1) : k \in members} |->
                    IF o <= RootOffset + NumTypes
                    THEN GraphNode(o - RootOffset, tags[o - RootOffset],
                                   refs[o - RootOffset])
                    ELSE Member(TypeOffset(refs[(o - RootOffset) \div 10]))]
    IN  [entries |-> UnitOf([k \in 1..NumTypes |-> TypeOffset(k)], tree),
         BaseOfImage |-> Zero32]

\* Cycles: pointer 1 -> struct 2, whose member is a pointer back to struct 2
\* (direct) or a struct 3; the member of struct 3 is a pointer back to
\* struct 2.  The pointer back is pointer 1 again, or pointer 4.  The four
\* are the root's children in any order.
Orders(S) == {f \in [1..Cardinality(S) -> S] : \A i, j \in DOMAIN f : f[i] = f[j] => i = j}

CycleUnit(order, back, direct) ==
    LET tree == [o \in {TypeOffset(k) : k \in 1..4}
                       \cup {ChildOffset(2, 1), ChildOffset(3, 1)} |->
                    CASE o = TypeOffset(1) ->
                            Entry("DW_TAG_pointer_type", FALSE, <<TypeRef(TypeOffset(2))>>, <<>>)
                      [] o = TypeOffset(2) -> Struct(2, <<ChildOffset(2, 1)>>)
                      [] o = TypeOffset(3) -> Struct(3, <<ChildOffset(3, 1)>>)
                      [] o = TypeOffset(4) ->
                            Entry("DW_TAG_pointer_type", FALSE, <<TypeRef(TypeOffset(2))>>, <<>>)
                      [] o = ChildOffset(2, 1) ->
                            Member(TypeOffset(IF direct THEN back ELSE 3))
                      [] OTHER -> Member(TypeOffset(back))]
    IN  [entries |-> UnitOf([i \in 1..4 |-> TypeOffset(order[i])], tree),
         BaseOfImage |-> Zero32]

\* Variables: a base type and one or two file-scope variables of that type
\* at [DW_OP_addr X], the root's children in either order
BaseInt ==
    Entry("DW_TAG_base_type", FALSE,
          <<NameAt(<<105, 110, 116>>), At("DW_AT_byte_size", "DW_FORM_data1", <<4, 0>>),
            At("DW_AT_encoding", "DW_FORM_data1", <<5, 0>>)>>, <<>>)

Externals == {"absent", "zero", "one"}

Variable(k, type, location, external) ==
    Entry("DW_TAG_variable", FALSE,
          <<NameAt(<<118, 48 + k>>), TypeRef(type),
            Block1("DW_AT_location", location)>>
          \o (CASE external = "absent" -> <<>>
                [] external = "zero" -> <<Flag("DW_AT_external", 0)>>
                [] OTHER -> <<Flag("DW_AT_external", 1)>>),
          <<>>)

VariableAddresses == {Zero32, W32(0, 4096), W32(65535, 65520)}

ImageBases == {Zero32, W32(2052, 32768), W32(65535, 61440)}

VariableUnit(first, two, X, external, base) ==
    LET b == IF first THEN TypeOffset(1) ELSE TypeOffset(3)
        tree == [o \in {TypeOffset(1), TypeOffset(2), TypeOffset(3)} |->
                    IF o = b THEN BaseInt
                    ELSE Variable(o - RootOffset, b, <<DW_OP_addr>> \o LE4(X),
                                  IF o = TypeOffset(2) THEN external ELSE "one")]
    IN  [entries |-> UnitOf(IF two
                            THEN <<TypeOffset(1), TypeOffset(2), TypeOffset(3)>>
                            ELSE IF first THEN <<TypeOffset(1), TypeOffset(2)>>
                            ELSE <<TypeOffset(2), TypeOffset(3)>>, tree),
         BaseOfImage |-> base]

\* Arrays: an array of a base type with its subrange children; a bound
\* attribute is absent or has one of the values
Bounds == {"absent", "zero", "ten", "max"}

BoundAttr(attribute, b) ==
    CASE b = "absent" -> <<>>
      [] b = "zero" -> <<Data4(attribute, Zero32)>>
      [] b = "ten" -> <<At(attribute, "DW_FORM_data1", <<10, 0>>)>>
      [] OTHER -> <<Data4(attribute, W32(65535, 65535))>>

Subrange(lower, upper, count) ==
    Entry("DW_TAG_subrange_type", FALSE,
          <<TypeRef(TypeOffset(1))>> \o BoundAttr("DW_AT_lower_bound", lower)
          \o BoundAttr("DW_AT_upper_bound", upper) \o BoundAttr("DW_AT_count", count),
          <<>>)

\* dims subrange children (0..2), the last with the bounds given
ArrayUnit(dims, lower, upper, count) ==
    LET kids == [j \in 1..dims |-> ChildOffset(2, j)]
        tree == [o \in {TypeOffset(1), TypeOffset(2)} \cup {kids[j] : j \in 1..dims} |->
                    CASE o = TypeOffset(1) -> BaseInt
                      [] o = TypeOffset(2) ->
                            Entry("DW_TAG_array_type", TRUE, <<TypeRef(TypeOffset(1))>>, kids)
                      [] o = ChildOffset(2, dims) -> Subrange(lower, upper, count)
                      [] OTHER -> Subrange("zero", "ten", "absent")]
    IN  [entries |-> UnitOf(<<TypeOffset(2), TypeOffset(1)>>, tree),
         BaseOfImage |-> Zero32]

SymCtx == [word_size |-> 4, ref_offset |-> Zero32, section_string |-> <<>>,
           thunks |-> <<>>]

\* the four sections handed to dwarf2_parse; line_mapped is FALSE when the
\* address of the line section is NO_MAP
NoSections == [debug |-> <<>>, abbrev |-> <<>>, string |-> <<>>, line |-> <<>>,
               line_mapped |-> FALSE]

ParseIdle ==
    /\ sections = NoSections
    /\ module = [BaseOfImage |-> Zero32]
    /\ ctx = SymCtx
    /\ entries = <<>>
    /\ symbols = <<>>
    /\ stack = <<>>
    /\ retval = 0
    /\ nameIndex = IndexAt(0)
    /\ status = "idle"

DecodeUnit(u) ==
    /\ entries = u.entries
    /\ module = [BaseOfImage |-> u.BaseOfImage]

\* no location asked for
LocNoResult ==
    [stage |-> "idle", ret |-> FALSE, written |-> FALSE, offset |-> Zero32,
     in_register |-> Zero32, overrun |-> FALSE, reg |-> CvNone, deref |-> FALSE,
     eval |-> LocNoState]

LocIdle ==
    /\ locProgram = <<>>
    /\ locDi = Entry("", FALSE, <<>>, <<>>)
    /\ locHasReg = FALSE
    /\ locOut = LocNoResult

(***************************************************************************)
(* The specifications                                                      *)
(***************************************************************************)
LebInit == LebStart /\ AttrIdle /\ LocIdle /\ ParseIdle

LebNext == ReadUnsigned \/ ReadSigned

SpecLeb == LebInit /\ [][LebNext]_vars

AttrInit == AttrStart /\ LebIdle /\ LocIdle /\ ParseIdle

AttrNext == FindAttribute

SpecAttr == AttrInit /\ [][AttrNext]_vars

(***************************************************************************)
(* SpecLine: dwarf2_parse_line_numbers over one line number program, with  *)
(* the module's functions already in the symbol table.                     *)
(***************************************************************************)
\* the header a producer writes; the standard opcodes' operand counts are
\* those of DWARF 2
LineHeader(insn_size, line_base, line_range, opcode_base, dirs, files) ==
    <<insn_size, 1, (line_base + 256) % 256, line_range, opcode_base>>
    \o SubSeq(<<0, 1, 1, 1, 1, 0, 0, 0, 1, 0, 0, 1>>, 1, opcode_base - 1)
    \o dirs \o <<0>> \o files \o <<0>>

\* version 2; the length does not count its own four bytes
LineUnit(header, program) ==
    LE4(U32(6 + Len(header) + Len(program))) \o <<2, 0>> \o LE4(U32(Len(header)))
    \o header \o program

OneFile == <<97, 46, 99, 0, 0, 0, 0>>

SetAddress(A) == <<DW_LNS_extended_op, 5, DW_LNE_set_address>> \o LE4(A)

EndSequence == <<DW_LNS_extended_op, 1, DW_LNE_end_sequence>>

\* set_address, one special opcode, end_sequence
ThreeStep(A, op) == SetAddress(A) \o <<op>> \o EndSequence

\* two sequences with every kind of opcode
Tour ==
    SetAddress(W32(0, 8192)) \o <<DW_LNS_copy, DW_LNS_advance_pc, 4,
      DW_LNS_advance_line, 127, DW_LNS_set_file, 2, DW_LNS_set_column, 7,
      DW_LNS_negate_stmt, DW_LNS_set_basic_block, DW_LNS_const_add_pc,
      DW_LNS_fixed_advance_pc, 16, 0, 20>>
    \o <<DW_LNS_extended_op, 6, DW_LNE_define_file, 98, 0, 0, 0, 0>>
    \o <<DW_LNS_extended_op, 1, 128>> \o EndSequence
    \o <<11, DW_LNS_copy>> \o EndSequence

\* a sequence without an end_sequence
Unended == SetAddress(W32(0, 8192)) \o <<DW_LNS_copy>>

\* what may follow the unit of Unended in the section
Trailing == <<DW_LNS_advance_pc, 4, DW_LNS_copy>> \o EndSequence

\* a sequence, and a second one of an end_sequence alone that begins in the
\* last four bytes of the unit
LastFour == SetAddress(W32(0, 8192)) \o <<DW_LNS_copy>> \o EndSequence \o EndSequence

\* an extended opcode the decoder does not know, of length 3: the
\* sub-opcode and two bytes of operands
LongExtended ==
    SetAddress(W32(0, 8192))
    \o <<DW_LNS_extended_op, 3, 128, DW_LNS_copy, DW_LNS_copy>> \o EndSequence

LineAddresses == {W32(0, 8192), Zero32, W32(65535, 65532)}

OpcodeBases == {10, 13}

\* the special opcodes tried: the first, one that changes nothing, one of
\* address += 4 and line += 1, the last
SpecialOpcodes(opcode_base) == {opcode_base, opcode_base + 5, opcode_base + 62, 255}

\* min_instruction_length, line_base, line_range of the headers
LineScales == {<<1, -5, 14>>, <<4, 1, 1>>}

\* the function registered: none, or one at module base + start of a size;
\* the first of them may be followed by a second function of 16 bytes
LineFunctions == {<<>>, <<W32(0, 8192), W32(0, 16)>>, <<Zero32, W32(1, 0)>>,
                  <<W32(65535, 65532), W32(0, 64)>>}

LineCtx == [word_size |-> 4, ref_offset |-> Zero32, section_string |-> <<>>,
            thunks |-> <<>>]

LineStart ==
    /\ ctx = LineCtx
    /\ entries = <<>>
    /\ \E base \in {Zero32, W32(2052, 32768)}, fn \in LineFunctions, second \in BOOLEAN :
          /\ module = [BaseOfImage |-> base]
          /\ second => fn = <<W32(0, 8192), W32(0, 16)>>
          /\ symbols = <<symt_new_compiland(Name("", 0, <<97, 46, 99>>), NullString)>>
                \o (IF fn = <<>> THEN <<>>
                    ELSE <<symt_new_function(1, Name("", 0, <<102>>),
                                             add32(base, fn[1]), fn[2], 0)>>)
                \o (IF second
                    THEN <<symt_new_function(1, Name("", 0, <<103>>),
                                             add32(add32(base, fn[1]), fn[2]),
                                             W32(0, 16), 0)>>
                    ELSE <<>>)
    /\ \E mapped \in BOOLEAN, pad \in {<<>>, <<255, 255, 255>>},
          files \in {<<>>, OneFile}, scale \in LineScales, opcode_base \in OpcodeBases :
          /\ \E program \in {Tour, Unended, LastFour, LongExtended}
                             \cup {ThreeStep(A, op) :
                                      A \in LineAddresses,
                                      op \in SpecialOpcodes(opcode_base)},
                after \in {<<>>, Trailing} :
                /\ after # <<>> => program = Unended
                /\ sections = [NoSections EXCEPT
                       !.line = pad \o LineUnit(LineHeader(scale[1], scale[2], scale[3],
                                                           opcode_base, <<>>, files),
                                                program) \o after,
                       !.line_mapped = mapped]
          /\ \E dir \in {NullString, Name("", 0, <<47, 115>>)} :
                stack = <<LineNumbersFrame(dir, U32(Len(pad)))>>
    /\ retval = 0
    /\ nameIndex = IndexAt(0)
    /\ status = "run"

LineInit == LineStart /\ LebIdle /\ AttrIdle /\ LocIdle

LineNext == ParseLineNumbers \/ LineSequence \/ LineOpcode

SpecLine == LineInit /\ [][LineNext /\ UNCHANGED <<lebVars, attrVars, locVars>>]_vars

\* SpecCycle: the symbol builder over the units of pointers and aggregates
\* in a cycle, run by a thread that is never suspended for ever
CycleStart ==
    /\ sections = NoSections
    /\ ctx = SymCtx
    /\ \E order \in Orders(1..4), back \in {1, 4}, direct \in BOOLEAN :
          DecodeUnit(CycleUnit(order, back, direct))
    /\ symbols = <<>>
    /\ stack = <<CompilationUnitFrame(RootOffset)>>
    /\ retval = 0
    /\ nameIndex = IndexAt(0)
    /\ status = "run"

CycleInit == CycleStart /\ LebIdle /\ AttrIdle /\ LocIdle

CycleNext ==
    \/ CompilationUnitRoot
    \/ CompilationUnitChild
    \/ LoadOneEntry
    \/ LookupType
    \/ LookupTypeLoaded
    \/ ParsePointerType
    \/ ParsePointerTypeRef
    \/ ParseUdtType
    \/ ParseUdtTypeChild
    \/ ParseUdtMember
    \/ ParseUdtMemberType

SpecCycle ==
    /\ CycleInit
    /\ [][CycleNext /\ UNCHANGED <<lebVars, attrVars, locVars>>]_vars
    /\ WF_vars(CycleNext /\ UNCHANGED <<lebVars, attrVars, locVars>>)

(***************************************************************************)
(* SpecDrv: dwarf2_parse over the sections a producer wrote.  A unit is a  *)
(* list of entries in the order of the stream, each with a declaration of  *)
(* its own whose code is its place in the list.                            *)
(***************************************************************************)
PAttr(attribute, form, bytes) ==
    [attribute |-> attribute, form |-> form, bytes |-> bytes, ref |-> 0]

\* a reference to the entry at place `target` of the list
PRef(attribute, target) ==
    [attribute |-> attribute, form |-> "DW_FORM_ref4", bytes |-> <<0, 0, 0, 0>>,
     ref |-> target]

PName(str) == PAttr("DW_AT_name", "DW_FORM_string", str \o <<0>>)

PData1(attribute, b) == PAttr(attribute, "DW_FORM_data1", <<b>>)

PAddr(attribute, w) == PAttr(attribute, "DW_FORM_addr", LE4(w))

PBlock1(attribute, bytes) == PAttr(attribute, "DW_FORM_block1", <<Len(bytes)>> \o bytes)

PNode(tag, have_child, attrs) == [tag |-> tag, have_child |-> have_child, attrs |-> attrs]

\* the entry of code 0 that ends a list of children
PEnd == PNode("", FALSE, <<>>)

NumberIn(table, name) == CHOOSE n \in DOMAIN table : table[n] = name

RECURSIVE Flatten(_)
Flatten(seqs) == IF seqs = <<>> THEN <<>> ELSE Head(seqs) \o Flatten(Tail(seqs))

NodeSize(node) == 1 + Len(Flatten([k \in 1..Len(node.attrs) |-> node.attrs[k].bytes]))

\* the offset in its unit of the entry at place i
RECURSIVE NodeOffset(_, _)
NodeOffset(nodes, i) ==
    IF i = 1 THEN CompUnitStreamSize
    ELSE NodeOffset(nodes, i - 1) + NodeSize(nodes[i - 1])

NodeBytes(nodes, i) ==
    <<IF nodes[i] = PEnd THEN 0 ELSE i>>
    \o Flatten([k \in 1..Len(nodes[i].attrs) |->
                  IF nodes[i].attrs[k].ref # 0
                  THEN LE4(U32(NodeOffset(nodes, nodes[i].attrs[k].ref)))
                  ELSE nodes[i].attrs[k].bytes])

\* a unit of 32-bit addresses; the length does not count its own four bytes
UnitBytes(nodes, version, abbrev_offset) ==
    LET Unit(body) ==
            LE4(U32(CompUnitStreamSize - 4 + Len(body))) \o <<version, 0>>
            \o LE4(U32(abbrev_offset)) \o <<4>> \o body
    IN  Unit(Flatten([i \in 1..Len(nodes) |-> NodeBytes(nodes, i)]))

Declaration(nodes, i) ==
    <<i, NumberIn(TagNames, nodes[i].tag), IF nodes[i].have_child THEN 1 ELSE 0>>
    \o Flatten([k \in 1..Len(nodes[i].attrs) |->
                  <<NumberIn(AttributeNames, nodes[i].attrs[k].attribute),
                    NumberIn(FormNames, nodes[i].attrs[k].form)>>])
    \o <<0, 0>>

\* the declarations of the entries but those at the places of `omit`
AbbrevBytes(nodes, omit) ==
    Flatten([i \in 1..Len(nodes) |->
               IF nodes[i] = PEnd \/ i \in omit THEN <<>> ELSE Declaration(nodes, i)])
    \o <<0>>

PInt == PNode("DW_TAG_base_type", FALSE,
              <<PName(<<105, 110, 116>>), PData1("DW_AT_byte_size", 4),
                PData1("DW_AT_encoding", 5)>>)

PRoot(attrs) == PNode("DW_TAG_compile_unit", TRUE, <<PName(<<107, 46, 99>>)>> \o attrs)

PLowHigh(low, high) == <<PAddr("DW_AT_low_pc", low), PAddr("DW_AT_high_pc", high)>>

\* a unit with an entry of every tag the decoder knows and of one it does
\* not, and a line number program
KitchenSink ==
    <<PRoot(<<PAttr("DW_AT_comp_dir", "DW_FORM_string", <<47, 115, 0>>),
              PAttr("DW_AT_stmt_list", "DW_FORM_data4", <<0, 0, 0, 0>>)>>),
      PInt,
      PNode("DW_TAG_typedef", FALSE, <<PName(<<116>>), PRef("DW_AT_type", 2)>>),
      PNode("DW_TAG_pointer_type", FALSE, <<PRef("DW_AT_type", 2)>>),
      PNode("DW_TAG_reference_type", FALSE, <<PRef("DW_AT_type", 2)>>),
      PNode("DW_TAG_const_type", FALSE, <<PRef("DW_AT_type", 2)>>),
      PNode("DW_TAG_volatile_type", FALSE, <<PRef("DW_AT_type", 2)>>),
      PNode("DW_TAG_array_type", TRUE, <<PRef("DW_AT_type", 2)>>),
        PNode("DW_TAG_subrange_type", FALSE,
              <<PRef("DW_AT_type", 2), PData1("DW_AT_upper_bound", 9)>>),
        PEnd,
      PNode("DW_TAG_structure_type", TRUE,
            <<PName(<<83>>), PData1("DW_AT_byte_size", 8)>>),
        PNode("DW_TAG_member", FALSE,
              <<PName(<<109>>), PRef("DW_AT_type", 2),
                PBlock1("DW_AT_data_member_location", <<DW_OP_plus_uconst, 4>>)>>),
        PEnd,
      PNode("DW_TAG_enumeration_type", TRUE,
            <<PName(<<69>>), PData1("DW_AT_byte_size", 4)>>),
        PNode("DW_TAG_enumerator", FALSE,
              <<PName(<<65>>), PData1("DW_AT_const_value", 1)>>),
        PEnd,
      PNode("DW_TAG_subroutine_type", TRUE, <<PRef("DW_AT_type", 2)>>),
        PNode("DW_TAG_formal_parameter", FALSE, <<PRef("DW_AT_type", 2)>>),
        PEnd,
      PNode("DW_TAG_subprogram", TRUE,
            <<PName(<<102>>), PRef("DW_AT_type", 2),
              PBlock1("DW_AT_frame_base", <<DW_OP_reg0 + 5>>)>>
            \o PLowHigh(W32(0, 8192), W32(0, 8208))),
        PNode("DW_TAG_formal_parameter", FALSE,
              <<PName(<<112>>), PRef("DW_AT_type", 2),
                PBlock1("DW_AT_location", <<DW_OP_fbreg, 8>>)>>),
        PNode("DW_TAG_variable", FALSE,
              <<PName(<<118>>), PRef("DW_AT_type", 4),
                PBlock1("DW_AT_location", <<DW_OP_reg0 + 3>>)>>),
        PNode("DW_TAG_lexical_block", TRUE, PLowHigh(W32(0, 8196), W32(0, 8204))),
          PNode("DW_TAG_variable", FALSE,
                <<PName(<<119>>), PRef("DW_AT_type", 2),
                  PBlock1("DW_AT_location", <<DW_OP_fbreg, 4>>)>>),
          PNode("DW_TAG_inlined_subroutine", TRUE, <<>>),
            PNode("DW_TAG_label", FALSE,
                  <<PName(<<108>>), PAddr("DW_AT_low_pc", W32(0, 8200))>>),
            PEnd,
          PEnd,
        PNode("DW_TAG_label", FALSE,
              <<PName(<<76>>), PAddr("DW_AT_low_pc", W32(0, 8204))>>),
        PEnd,
      PNode("DW_TAG_variable", FALSE,
            <<PName(<<103>>), PRef("DW_AT_type", 3),
              PBlock1("DW_AT_location", <<DW_OP_addr, 0, 48, 0, 0>>),
              PAttr("DW_AT_external", "DW_FORM_flag", <<1>>)>>),
      PNode("DW_TAG_string_type", FALSE, <<PData1("DW_AT_byte_size", 2)>>),
      PEnd>>

\* the line number program of KitchenSink: one fact in the function f
KitchenLines ==
    LineUnit(LineHeader(1, -5, 14, 13, <<>>, OneFile), ThreeStep(W32(0, 8192), 75))

\* a base type and a global variable of it under the root
Plain ==
    <<PRoot(<<>>), PInt,
      PNode("DW_TAG_variable", FALSE,
            <<PName(<<103>>), PRef("DW_AT_type", 2),
              PBlock1("DW_AT_location", <<DW_OP_addr, 0, 64, 0, 0>>),
              PAttr("DW_AT_external", "DW_FORM_flag", <<1>>)>>),
      PEnd>>

\* a structure with a member under the root
Nested1 ==
    <<PRoot(<<>>), PInt,
      PNode("DW_TAG_structure_type", TRUE,
            <<PName(<<83>>), PData1("DW_AT_byte_size", 4)>>),
        PNode("DW_TAG_member", FALSE, <<PName(<<109>>), PRef("DW_AT_type", 2)>>),
        PEnd,
      PEnd>>

PSibling(target) == PRef("DW_AT_sibling", target)

PStruct(attrs) ==
    PNode("DW_TAG_structure_type", TRUE,
          <<PName(<<83>>), PData1("DW_AT_byte_size", 4)>> \o attrs)

PMember == PNode("DW_TAG_member", FALSE, <<PName(<<109>>), PRef("DW_AT_type", 2)>>)

PTypedef == PNode("DW_TAG_typedef", FALSE, <<PName(<<116>>), PRef("DW_AT_type", 2)>>)

PPointer == PNode("DW_TAG_pointer_type", FALSE, <<PRef("DW_AT_type", 2)>>)

\* units for the tree walker: a sibling attribute that names the entry the
\* cursor is at anyway, one on an entry without children that passes over
\* the next entry, one on an entry with children that passes over the
\* entry after its list, a list that the end of the unit ends, an empty
\* list, and a root whose list ends before the unit does
WalkUnits ==
    {<<PRoot(<<>>), PInt, PStruct(<<PSibling(6)>>), PMember, PEnd, PTypedef, PEnd>>,
     <<PRoot(<<>>), PNode("DW_TAG_base_type", FALSE, PInt.attrs \o <<PSibling(4)>>),
       PTypedef, PPointer, PEnd>>,
     <<PRoot(<<>>), PInt, PStruct(<<PSibling(7)>>), PMember, PEnd, PTypedef, PPointer,
       PEnd>>,
     <<PRoot(<<>>), PInt, PStruct(<<>>), PMember>>,
     <<PRoot(<<>>), PInt, PStruct(<<>>), PEnd, PTypedef, PEnd>>,
     <<PRoot(<<>>), PInt, PEnd, PTypedef, PEnd>>}

\* a unit whose entries have no name: the compile unit, a base type, a
\* structure and its member, an enumeration and its enumerator
Unnamed ==
    <<PNode("DW_TAG_compile_unit", TRUE, <<>>),
      PNode("DW_TAG_base_type", FALSE,
            <<PData1("DW_AT_byte_size", 4), PData1("DW_AT_encoding", 5)>>),
      PNode("DW_TAG_structure_type", TRUE, <<PData1("DW_AT_byte_size", 4)>>),
        PNode("DW_TAG_member", FALSE, <<PRef("DW_AT_type", 2)>>),
        PEnd,
      PNode("DW_TAG_enumeration_type", TRUE, <<PData1("DW_AT_byte_size", 4)>>),
        PNode("DW_TAG_enumerator", FALSE, <<PData1("DW_AT_const_value", 1)>>),
        PEnd,
      PEnd>>

\* units whose sibling attribute names no later entry: the entry before,
\* the entry that carries it, and a place after the end of the unit
StraySiblings ==
    {<<PRoot(<<>>), PInt, PStruct(<<PSibling(2)>>), PMember, PEnd, PTypedef, PEnd>>,
     <<PRoot(<<>>), PNode("DW_TAG_base_type", FALSE, PInt.attrs \o <<PSibling(2)>>),
       PTypedef, PEnd>>,
     <<PRoot(<<>>), PInt,
       PStruct(<<PAttr("DW_AT_sibling", "DW_FORM_ref4", <<200, 0, 0, 0>>)>>),
       PMember, PEnd, PTypedef, PEnd>>}

\* what the static index of dwarf2_find_name holds when a unit is parsed:
\* 0 in a process that has synthesized no name yet, more after earlier
\* calls of dwarf2_parse
EarlierNames == {0, IntMax - 1}

\* what an inlined subroutine holds
InlinedKids == {"parameter", "variable", "block", "label"}

PInlinedKid(kind) ==
    CASE kind = "parameter" ->
            PNode("DW_TAG_formal_parameter", FALSE,
                  <<PName(<<112>>), PRef("DW_AT_type", 2),
                    PBlock1("DW_AT_location", <<DW_OP_fbreg, 8>>)>>)
      [] kind = "variable" ->
            PNode("DW_TAG_variable", FALSE,
                  <<PName(<<118>>), PRef("DW_AT_type", 2),
                    PBlock1("DW_AT_location", <<DW_OP_fbreg, 4>>)>>)
      [] kind = "block" ->
            PNode("DW_TAG_lexical_block", FALSE, PLowHigh(W32(0, 8196), W32(0, 8204)))
      [] OTHER ->
            PNode("DW_TAG_label", FALSE,
                  <<PName(<<108>>), PAddr("DW_AT_low_pc", W32(0, 8200))>>)

PInlined ==
    PNode("DW_TAG_inlined_subroutine", TRUE,
          <<PName(<<105>>)>> \o PLowHigh(W32(0, 8196), W32(0, 8204)))

\* a function f with an inlined subroutine i that holds one entry, directly
\* or in an inlined subroutine of its own
InlinedUnit(kind, nested) ==
    <<PRoot(<<>>), PInt,
      PNode("DW_TAG_subprogram", TRUE,
            <<PName(<<102>>), PRef("DW_AT_type", 2),
              PBlock1("DW_AT_frame_base", <<DW_OP_reg0 + 5>>)>>
            \o PLowHigh(W32(0, 8192), W32(0, 8208))),
      PInlined>>
    \o (IF nested THEN <<PInlined, PInlinedKid(kind), PEnd>> ELSE <<PInlinedKid(kind)>>)
    \o <<PEnd, PEnd, PEnd>>

InlinedUnits == {InlinedUnit(kind, nested) : kind \in InlinedKids, nested \in BOOLEAN}

\* an entry the loader passes over, with an attribute of every form the
\* tree walker steps over, between two entries it loads
AllForms ==
    <<PRoot(<<>>), PInt,
      PNode("DW_TAG_string_type", FALSE,
            <<PAttr("DW_AT_language", "DW_FORM_data2", <<1, 2>>),
              PAttr("DW_AT_producer", "DW_FORM_strp", <<0, 0, 0, 0>>),
              PAttr("DW_AT_lower_bound", "DW_FORM_sdata", <<255, 126>>),
              PAttr("DW_AT_upper_bound", "DW_FORM_udata", <<133, 1>>),
              PAttr("DW_AT_count", "DW_FORM_data8", <<1, 2, 3, 4, 5, 6, 7, 8>>),
              PAttr("DW_AT_comp_dir", "DW_FORM_ref1", <<12>>),
              PAttr("DW_AT_stmt_list", "DW_FORM_ref2", <<12, 0>>),
              PAttr("DW_AT_const_value", "DW_FORM_ref8", <<12, 0, 0, 0, 0, 0, 0, 0>>),
              PAttr("DW_AT_low_pc", "DW_FORM_ref_addr", <<12, 0, 0, 0>>),
              PAttr("DW_AT_high_pc", "DW_FORM_ref_udata", <<140, 0>>),
              PAttr("DW_AT_location", "DW_FORM_block", <<2, 9, 9>>),
              PBlock1("DW_AT_encoding", <<9>>),
              PAttr("DW_AT_data_member_location", "DW_FORM_block2", <<1, 0, 9>>),
              PAttr("DW_AT_frame_base", "DW_FORM_block4", <<2, 0, 0, 0, 9, 9>>),
              PAttr("DW_AT_bit_size", "DW_FORM_flag", <<1>>),
              PAttr("DW_AT_bit_offset", "DW_FORM_data4", <<4, 3, 2, 1>>),
              PAddr("DW_AT_external", W32(1, 2)),
              PData1("DW_AT_declaration", 1),
              PName(<<115>>)>>),
      PTypedef,
      PEnd>>

PUnit(nodes, version, omit) == [nodes |-> nodes, version |-> version, omit |-> omit]

\* the units a stream is made of: well-formed ones, ones of another
\* version, ones with an entry whose code the abbreviation table lacks (the
\* root, a child of the root, a grandchild), one whose first entry is no
\* compile unit, one whose first entry has code 0
UnitKinds ==
    {PUnit(KitchenSink, 2, {}), PUnit(Plain, 2, {}), PUnit(Plain, 3, {}),
     PUnit(Nested1, 1, {}), PUnit(Plain, 2, {1}), PUnit(Plain, 2, {3}),
     PUnit(Nested1, 2, {4}), PUnit(<<PInt>>, 2, {}), PUnit(<<PEnd>>, 2, {})}

\* the units of one stream
MaxUnits == 2

\* the empty stream among them
Streams == UNION {[1..n -> UnitKinds] : n \in 0..MaxUnits}

\* the debug and abbreviation sections of a stream
RECURSIVE StreamSections(_, _, _, _)
StreamSections(units, k, debug, abbrev) ==
    IF k > Len(units) THEN [debug |-> debug, abbrev |-> abbrev]
    ELSE StreamSections(units, k + 1,
                        debug \o UnitBytes(units[k].nodes, units[k].version, Len(abbrev)),
                        abbrev \o AbbrevBytes(units[k].nodes, units[k].omit))

SectionsOf(units) ==
    LET Both(b) ==
            [debug |-> b.debug, abbrev |-> b.abbrev, string |-> <<>>,
             line |-> KitchenLines, line_mapped |-> TRUE]
    IN  Both(StreamSections(units, 1, <<>>, <<>>))

(***************************************************************************)
(* SpecLoc: dwarf2_compute_location on the location attribute of one       *)
(* entry, and the register dwarf2_parse_variable records for its result.   *)
(***************************************************************************)
\* the instructions of an expression of several
MaxOps == 3

\* the signed offsets of the register-relative instructions
LocOffsets == {0, 8, -4, 300, -129}

LocReg(n) == <<(DW_OP_reg0 + n)>>

LocBreg(n, k) == <<(DW_OP_breg0 + n)>> \o EncodeSLEB(k)

LocFbreg(k) == <<DW_OP_fbreg>> \o EncodeSLEB(k)

\* the expressions of one instruction: each register, alone and with each
\* offset, and the frame base with each offset
LocSingles ==
    {<<LocReg(n)>> : n \in 0..31}
    \cup {<<LocBreg(n, k)>> : n \in 0..31, k \in LocOffsets}
    \cup {<<LocFbreg(k)>> : k \in LocOffsets}

\* the instructions the longer expressions are made of
LocAlphabet ==
    {LocReg(3), LocReg(4), LocBreg(5, 8), LocFbreg(-4), <<DW_OP_piece, 4>>,
     <<DW_OP_const1u, 7>>, <<DW_OP_plus_uconst, 2>>}

\* DW_OP_deref, an opcode the switch of the evaluator has no case for
LocDeref == <<6>>

\* expressions that end in it, over a stack whose top is 0 and is not
LocUnhandled ==
    {<<LocDeref>>, <<<<DW_OP_const1u, 7>>, LocDeref>>, <<<<DW_OP_const1u, 0>>, LocDeref>>,
     <<LocFbreg(8), LocDeref>>, <<LocReg(3), LocDeref>>}

\* expressions of as many pushes as loc has slots after loc[0], and one more
LocDeep ==
    {[i \in 1..n |-> push] : n \in {LocSlots - 1, LocSlots},
                             push \in {<<DW_OP_const1u, 7>>, LocFbreg(8), LocBreg(5, 8)}}

LocPrograms ==
    LocSingles \cup UNION {[1..n -> LocAlphabet] : n \in 2..MaxOps}
    \cup LocUnhandled \cup LocDeep

\* the entry a producer writes for a variable at the expression
LocEntry(program) ==
    Entry("DW_TAG_variable", FALSE, <<Block1("DW_AT_location", Flatten(program))>>, <<>>)

LocStart ==
    /\ locProgram \in LocPrograms
    /\ locDi = LocEntry(locProgram)
    /\ locHasReg \in BOOLEAN
    /\ locOut = [LocNoResult EXCEPT !.stage = "start"]

\* what the return of dwarf2_compute_location leaves, or the evaluation
\* state the loop goes on from
LocTurn(r) ==
    IF r.over
    THEN locOut' = [locOut EXCEPT !.stage = "located", !.ret = r.result.ret,
                                  !.written = r.result.written,
                                  !.offset = r.result.offset,
                                  !.in_register = r.result.in_register,
                                  !.overrun = r.result.overrun,
                                  !.eval = LocNoState]
    ELSE locOut' = [locOut EXCEPT !.stage = "loop", !.eval = r.next]

\* dwarf2_compute_location(ctx, di, DW_AT_location, &offset, in_register),
\* in_register the address of an automatic int or NULL, up to the while loop
ComputeLocation ==
    /\ locOut.stage = "start"
    /\ \E residue \in StackResidue :
          LocTurn(LocBegin(SymCtx, locDi, "DW_AT_location", residue.uvalue, locHasReg,
                           residue))
    /\ UNCHANGED <<locProgram, locDi, locHasReg, lebVars, attrVars, parseVars>>

\* one turn of its while loop
ComputeLocationOpcode ==
    /\ locOut.stage = "loop"
    /\ LocTurn(LocStep(locOut.eval, SymCtx.word_size, locHasReg))
    /\ UNCHANGED <<locProgram, locDi, locHasReg, lebVars, attrVars, parseVars>>

\* the default case of the switch of dwarf2_parse_variable: the register
\* and the dereference flag handed to symt_add_func_local
MapRegister ==
    /\ locOut.stage = "located"
    /\ locHasReg
    /\ locOut.ret
    /\ ~locOut.overrun
    /\ WithoutDeref(locOut.in_register) \notin {Wine_DW_no_register, Wine_DW_frame_register}
    /\ locOut' = [locOut EXCEPT !.stage = "mapped",
                                !.reg = dwarf2_map_register(WithoutDeref(locOut.in_register)),
                                !.deref = HasDeref(locOut.in_register)]
    /\ UNCHANGED <<locProgram, locDi, locHasReg, lebVars, attrVars, parseVars>>

LocInit == LocStart /\ LebIdle /\ AttrIdle /\ ParseIdle

LocNext == ComputeLocation \/ ComputeLocationOpcode \/ MapRegister

SpecLoc == LocInit /\ [][LocNext]_vars

\* File-scope variables at a register: a base type, a variable of it whose
\* location is the instruction given, and a variable at an address after it
RegisterUnit(location) ==
    LET tree == [o \in {TypeOffset(1), TypeOffset(2), TypeOffset(3)} |->
                    CASE o = TypeOffset(1) -> BaseInt
                      [] o = TypeOffset(2) -> Variable(2, TypeOffset(1), location, "one")
                      [] OTHER -> Variable(3, TypeOffset(1),
                                           <<DW_OP_addr>> \o LE4(W32(0, 4096)), "one")]
    IN  [entries |-> UnitOf(<<TypeOffset(1), TypeOffset(2), TypeOffset(3)>>, tree),
         BaseOfImage |-> Zero32]

\* Subprograms: a base type, a subprogram returning it and a variable at an
\* address after it.  The subprogram starts at one of SubprogramStarts, has
\* a declaration attribute or none, and has no child or one of the kinds.
ThunkArea == <<[rva_start |-> W32(0, 12288), rva_end |-> W32(0, 12304)]>>

ThunkCtx == [SymCtx EXCEPT !.thunks = ThunkArea]

SubprogramStarts == {W32(0, 8192), W32(0, 12288), W32(0, 12303), W32(0, 12304)}

SubprogramKids == {"none", "parameter", "unlocated", "global", "label", "block"}

AddrAt(attribute, w) == At(attribute, "DW_FORM_addr", LE4(w) \o <<0>>)

SubprogramKid(kid, low_pc) ==
    CASE kid = "parameter" ->
            Entry("DW_TAG_formal_parameter", FALSE,
                  <<NameAt(<<112>>), TypeRef(TypeOffset(1)),
                    Block1("DW_AT_location", LocFbreg(8))>>, <<>>)
      [] kid = "unlocated" ->
            Entry("DW_TAG_formal_parameter", FALSE,
                  <<NameAt(<<112>>), TypeRef(TypeOffset(1))>>, <<>>)
      [] kid = "global" ->
            Variable(4, TypeOffset(1), <<DW_OP_addr>> \o LE4(W32(0, 4100)), "zero")
      [] kid = "label" ->
            Entry("DW_TAG_label", FALSE,
                  <<NameAt(<<76>>), AddrAt("DW_AT_low_pc", low_pc)>>, <<>>)
      [] OTHER ->
            Entry("DW_TAG_lexical_block", FALSE,
                  <<AddrAt("DW_AT_low_pc", low_pc),
                    AddrAt("DW_AT_high_pc", add32(low_pc, W32(0, 8)))>>, <<>>)

SubprogramUnit(declaration, low_pc, kid) ==
    LET kids == IF kid = "none" THEN <<>> ELSE <<ChildOffset(2, 1)>>
        tree == [o \in {TypeOffset(1), TypeOffset(2), TypeOffset(3)}
                       \cup {kids[j] : j \in 1..Len(kids)} |->
                    CASE o = TypeOffset(1) -> BaseInt
                      [] o = TypeOffset(2) ->
                            Entry("DW_TAG_subprogram", kid # "none",
                                  <<NameAt(<<102>>), TypeRef(TypeOffset(1)),
                                    AddrAt("DW_AT_low_pc", low_pc),
                                    AddrAt("DW_AT_high_pc", add32(low_pc, W32(0, 16))),
                                    Block1("DW_AT_frame_base", LocReg(5))>>
                                  \o (CASE declaration = "absent" -> <<>>
                                        [] declaration = "zero" ->
                                              <<Flag("DW_AT_declaration", 0)>>
                                        [] OTHER -> <<Flag("DW_AT_declaration", 1)>>),
                                  kids)
                      [] o = TypeOffset(3) ->
                            Variable(3, TypeOffset(1),
                                     <<DW_OP_addr>> \o LE4(W32(0, 4096)), "one")
                      [] OTHER -> SubprogramKid(kid, low_pc)]
    IN  [entries |-> UnitOf(<<TypeOffset(1), TypeOffset(2), TypeOffset(3)>>, tree),
         BaseOfImage |-> Zero32]

\* Frames: a base type and a function whose frame base is absent, a
\* register, a register and an offset, or a constant; the function's child
\* is a variable or a parameter at an offset from the frame base
FrameBases == {"absent", "reg", "breg", "constant"}

FrameBaseAttr(frame) ==
    CASE frame = "absent" -> <<>>
      [] frame = "reg" -> <<Block1("DW_AT_frame_base", LocReg(5))>>
      [] frame = "breg" -> <<Block1("DW_AT_frame_base", LocBreg(4, 16))>>
      [] OTHER -> <<Data4("DW_AT_frame_base", W32(0, 64))>>

FrameUnit(frame, tag, k) ==
    LET tree == [o \in {TypeOffset(1), TypeOffset(2), ChildOffset(2, 1)} |->
                    CASE o = TypeOffset(1) -> BaseInt
                      [] o = TypeOffset(2) ->
                            Entry("DW_TAG_subprogram", TRUE,
                                  <<NameAt(<<102>>), TypeRef(TypeOffset(1)),
                                    AddrAt("DW_AT_low_pc", W32(0, 8192)),
                                    AddrAt("DW_AT_high_pc", W32(0, 8208))>>
                                  \o FrameBaseAttr(frame),
                                  <<ChildOffset(2, 1)>>)
                      [] OTHER ->
                            Entry(tag, FALSE,
                                  <<NameAt(<<112>>), TypeRef(TypeOffset(1)),
                                    Block1("DW_AT_location", LocFbreg(k))>>, <<>>)]
    IN  [entries |-> UnitOf(<<TypeOffset(1), TypeOffset(2)>>, tree),
         BaseOfImage |-> Zero32]

\* Members: a base type of 4 bytes and a structure with one member of that
\* type; the member's location is absent, a block or a constant, and each of
\* its bit_size, bit_offset and byte_size attributes is absent or a value
MemberLocations == {"absent", "block", "constant"}

MemberUnit(location, bit_size, bit_offset, byte_size) ==
    LET Opt(attribute, v) == IF v < 0 THEN <<>> ELSE <<Data4(attribute, U32(v))>>
        tree == [o \in {TypeOffset(1), TypeOffset(2), ChildOffset(2, 1)} |->
                    CASE o = TypeOffset(1) -> BaseInt
                      [] o = TypeOffset(2) -> Struct(2, <<ChildOffset(2, 1)>>)
                      [] OTHER ->
                            Entry("DW_TAG_member", FALSE,
                                  <<NameAt(<<109>>), TypeRef(TypeOffset(1))>>
                                  \o (CASE location = "absent" -> <<>>
                                        [] location = "block" ->
                                              <<Block1("DW_AT_data_member_location",
                                                       <<DW_OP_plus_uconst, 4>>)>>
                                        [] OTHER ->
                                              <<Data4("DW_AT_data_member_location",
                                                      U32(6))>>)
                                  \o Opt("DW_AT_bit_size", bit_size)
                                  \o Opt("DW_AT_bit_offset", bit_offset)
                                  \o Opt("DW_AT_byte_size", byte_size),
                                  <<>>)]
    IN  [entries |-> UnitOf(<<TypeOffset(1), TypeOffset(2)>>, tree),
         BaseOfImage |-> Zero32]

\* SpecSym: dwarf2_parse_compilation_unit.  For the units of the families
\* above it has read the unit's tree and is at the test of the root entry's
\* tag; for KitchenSink and the units for the tree walker it is at its entry.
SymStart ==
    /\ \/ /\ sections = NoSections
          /\ \/ \E tags \in [1..NumTypes -> GraphTags], refs \in [1..NumTypes -> GraphRefs] :
                   DecodeUnit(GraphUnit(tags, refs))
             \/ \E order \in Orders(1..4), back \in {1, 4}, direct \in BOOLEAN :
                   DecodeUnit(CycleUnit(order, back, direct))
             \/ \E first, two \in BOOLEAN, X \in VariableAddresses, external \in Externals,
                   base \in ImageBases :
                   DecodeUnit(VariableUnit(first, two, X, external, base))
             \/ \E dims \in 0..2, lower, upper, count \in Bounds :
                   DecodeUnit(ArrayUnit(dims, lower, upper, count))
             \/ \E location \in {LocReg(3), LocBreg(5, 8), LocFbreg(-4)} :
                   DecodeUnit(RegisterUnit(location))
             \/ \E location \in MemberLocations, bit_size \in {-1, 3},
                   bit_offset \in {-1, 0, 5, 30}, byte_size \in {-1, 2} :
                   DecodeUnit(MemberUnit(location, bit_size, bit_offset, byte_size))
             \/ \E frame \in FrameBases, k \in {8, -4, 300},
                   tag \in {"DW_TAG_variable", "DW_TAG_formal_parameter"} :
                   DecodeUnit(FrameUnit(frame, tag, k))
          /\ ctx = SymCtx
          /\ stack = <<CompilationUnitFrame(RootOffset)>>
       \/ /\ sections = NoSections
          /\ \E declaration \in Externals, low_pc \in SubprogramStarts,
                kid \in SubprogramKids :
                DecodeUnit(SubprogramUnit(declaration, low_pc, kid))
          /\ ctx = ThunkCtx
          /\ stack = <<CompilationUnitFrame(RootOffset)>>
       \/ /\ \E nodes \in {KitchenSink, Unnamed, AllForms} \cup WalkUnits
                            \cup StraySiblings \cup InlinedUnits :
                sections = SectionsOf(<<PUnit(nodes, 2, {})>>)
          /\ entries = <<>>
          /\ \E base \in ImageBases : module = [BaseOfImage |-> base]
          /\ ctx = SymCtx
          /\ stack = <<CompilationUnitCall(CompUnitAt(sections.debug), 0)>>
    /\ symbols = <<>>
    /\ retval = 0
    /\ \E n \in (IF sections = NoSections THEN {0} ELSE EarlierNames) :
          nameIndex = IndexAt(n)
    /\ status = "run"

SymNext ==
    \/ LoadOneEntry
    \/ LookupType
    \/ LookupTypeLoaded
    \/ ParseBaseType
    \/ ParseTypedef
    \/ ParseTypedefRef
    \/ ParsePointerType
    \/ ParsePointerTypeRef
    \/ ParseReferenceType
    \/ ParseReferenceTypeRef
    \/ ParseConstType
    \/ ParseConstTypeRef
    \/ ParseVolatileType
    \/ ParseVolatileTypeRef
    \/ ParseArrayType
    \/ ParseArrayTypeRef
    \/ ParseArrayTypeChild
    \/ ParseArrayTypeSubrange
    \/ ParseUdtType
    \/ ParseUdtTypeChild
    \/ ParseUdtMember
    \/ ParseUdtMemberType
    \/ ParseEnumerationType
    \/ ParseSubroutineType
    \/ ParseSubroutineTypeRet
    \/ ParseSubroutineTypeChild
    \/ ParseSubroutineTypeParameter
    \/ ParseVariable
    \/ ParseVariableType
    \/ ParseSubprogram
    \/ ParseSubprogramRet
    \/ ParseSubprogramChild
    \/ ParseSubprogramBlock
    \/ ParseSubprogramBlockChild
    \/ ParseInlinedSubroutineChild
    \/ ParseAbbrevSet
    \/ ReadOneDebugInfo
    \/ ReadOneDebugInfoChild
    \/ ReadOneDebugInfoAdd
    \/ CompilationUnitEnter
    \/ CompilationUnitRead
    \/ CompilationUnitLoaded
    \/ CompilationUnitRoot
    \/ CompilationUnitChild
    \/ CompilationUnitReturn
    \/ ParseLineNumbers
    \/ LineSequence
    \/ LineOpcode

SymInit == SymStart /\ LebIdle /\ AttrIdle /\ LocIdle

SpecSym == SymInit /\ [][SymNext /\ UNCHANGED <<lebVars, attrVars, locVars>>]_vars

\* the bases the module is loaded at
DrvBases == {Zero32, W32(65535, 61440)}

\* a unit header alone: the declared length, the version, the offset 0 of
\* its abbreviations and the word size
LoneHeader(length, version) == LE4(length) \o <<version, 0>> \o LE4(Zero32) \o <<4>>

\* debug sections of one header whose declared length plus 4 is 0 in 32
\* bits, of a version the decoder takes and of one it does not
WrapStreams == {LoneHeader(W32(65535, 65532), version) : version \in {2, 3}}

DrvStart ==
    /\ \/ \E units \in Streams : sections = SectionsOf(units)
       \/ \E debug \in WrapStreams :
             sections = [NoSections EXCEPT !.debug = debug, !.abbrev = <<0>>]
    /\ \E base \in DrvBases : module = [BaseOfImage |-> base]
    /\ ctx = SymCtx
    /\ entries = <<>>
    /\ symbols = <<>>
    /\ stack = <<ParseFrame>>
    /\ retval = 0
    /\ nameIndex = IndexAt(0)
    /\ status = "run"

DrvInit == DrvStart /\ LebIdle /\ AttrIdle /\ LocIdle

DrvNext == Parse \/ ParseAdvance \/ SymNext

SpecDrv == DrvInit /\ [][DrvNext /\ UNCHANGED <<lebVars, attrVars, locVars>>]_vars

(***************************************************************************)
(* The claims.  An entry's attributes are read below from the raw bytes    *)
(* the producer wrote, not through the decoder.                            *)
(***************************************************************************)
TagOf(d) == entries[d].abbrev.tag

\* the position of attribute `at` in entry d's declaration, 0 when absent
AttrAt(d, at) ==
    IF \E i \in DOMAIN entries[d].abbrev.attrs : entries[d].abbrev.attrs[i].attribute = at
    THEN CHOOSE i \in DOMAIN entries[d].abbrev.attrs :
            entries[d].abbrev.attrs[i].attribute = at
    ELSE 0

HasAttr(d, at) == AttrAt(d, at) # 0

RawOf(d, at) == entries[d].data[AttrAt(d, at)]

FormOf(d, at) == entries[d].abbrev.attrs[AttrAt(d, at)].form

\* the little-endian word at the first four bytes of b
WordAt(b) == W32(b[4] * 256 + b[3], b[2] * 256 + b[1])

\* the number a producer wrote for a one-byte or four-byte attribute
WrittenWord(d, at) ==
    IF FormOf(d, at) \in {"DW_FORM_data4", "DW_FORM_ref4"} THEN WordAt(RawOf(d, at))
    ELSE U32(RawOf(d, at)[1])

\* the entry a four-byte type reference of entry d names, 0 when d has none
\* or the offset is no entry's
TypeTarget(d) ==
    IF HasAttr(d, "DW_AT_type") /\ FormOf(d, "DW_AT_type") = "DW_FORM_ref4"
       /\ WrittenWord(d, "DW_AT_type").hi = 0
       /\ WrittenWord(d, "DW_AT_type").lo \in DOMAIN entries
    THEN WrittenWord(d, "DW_AT_type").lo
    ELSE 0

\* the name the producer wrote for entry d (a string form)
WrittenName(d) == Name("", 0, CString(RawOf(d, "DW_AT_name")))

SymbolsOf(tag) == {i \in DOMAIN symbols : symbols[i].tag = tag}

\* the entries a frame of a type parser or of dwarf2_load_one_entry resolves
Resolving ==
    {stack[i].di : i \in {j \in DOMAIN stack : stack[j].fn # "dwarf2_lookup_type"}}

TypeParsers ==
    {"dwarf2_parse_base_type", "dwarf2_parse_typedef", "dwarf2_parse_pointer_type",
     "dwarf2_parse_array_type", "dwarf2_parse_const_type", "dwarf2_parse_volatile_type",
     "dwarf2_parse_reference_type", "dwarf2_parse_udt_type",
     "dwarf2_parse_enumeration_type", "dwarf2_parse_subprogram",
     "dwarf2_parse_subroutine_type"}

\* C1: once an entry's symbol slot is set it keeps that symbol, and a
\* resolution of an entry whose slot is set (a type parser entered for it,
\* dwarf2_lookup_type referring to it) returns the slot's symbol and
\* creates no symbol
C1_MemoizedSlotIsFinal ==
    [][/\ \A d \in DOMAIN entries :
             entries[d].symt # 0 => entries'[d].symt = entries[d].symt
       /\ (status = "run" /\ stack # <<>> /\ Top.pc = "enter"
             /\ Top.fn \in TypeParsers /\ entries[Top.di].symt # 0)
          => (retval' = entries[Top.di].symt /\ symbols' = symbols)
       /\ (Running("dwarf2_lookup_type", "enter") /\ TypeTarget(Top.di) # 0
             /\ entries[TypeTarget(Top.di)].symt # 0)
          => (retval' = entries[TypeTarget(Top.di)].symt /\ symbols' = symbols)]_vars

\* the types of the members of aggregate s
MemberTypes(s) ==
    {TypeTarget(entries[s].children[i]) :
        i \in {j \in DOMAIN entries[s].children :
                  TagOf(entries[s].children[j]) = "DW_TAG_member"}} \ {0}

Aggregates == {d \in DOMAIN entries : TagOf(d) = "DW_TAG_structure_type"}

\* the aggregates reached from those of S through at most n members
RECURSIVE Nested(_, _)
Nested(S, n) ==
    IF n = 0 THEN S
    ELSE Nested(S \cup (UNION {MemberTypes(s) : s \in S} \cap Aggregates), n - 1)

\* p is a pointer to the aggregate s, and s has, directly or through further
\* members, a member whose type is a pointer to s
CyclePair(p, s) ==
    /\ TagOf(p) = "DW_TAG_pointer_type"
    /\ s \in Aggregates
    /\ TypeTarget(p) = s
    /\ \E t \in Nested({s}, Cardinality(Aggregates)) :
          \E q \in MemberTypes(t) : TagOf(q) = "DW_TAG_pointer_type" /\ TypeTarget(q) = s

CyclePairs == {c \in (DOMAIN entries) \X (DOMAIN entries) : CyclePair(c[1], c[2])}

\* a resolution of the pointer or of the aggregate of a cycle is under way
ResolvingCycle == \E c \in CyclePairs : Resolving \cap {c[1], c[2]} # {}

\* the symbols built for the aggregate s
AggregateSymbols(s) ==
    {i \in SymbolsOf("SymTagUDT") : symbols[i].name = WrittenName(s)}

\* the pointers of the members of the aggregates nested in s that point to s
\* point to the symbol in s's slot
CycleClosed(s) ==
    \A t \in Nested({s}, Cardinality(Aggregates)) :
       entries[t].symt # 0 =>
          \A e \in DOMAIN symbols[entries[t].symt].elements :
             LET type == symbols[entries[t].symt].elements[e].type
             IN  (type # 0 /\ symbols[type].tag = "SymTagPointerType"
                    /\ symbols[type].pointsto \in SymbolsOf("SymTagUDT")
                    /\ symbols[symbols[type].pointsto].name = WrittenName(s))
                 => symbols[type].pointsto = entries[s].symt

\* C2: with a pointer p to an aggregate s that has (directly or through
\* further members) a member of type pointer to s, a resolution of p or of s
\* comes to its end without failure; never is there a second symbol for s,
\* and once p is resolved there is exactly one, which p's symbol and the
\* pointers reached through the members all point to
C2_CycleResolvedOnce ==
    /\ [](\A c \in CyclePairs :
            /\ Cardinality(AggregateSymbols(c[2])) <= 1
            /\ (entries[c[1]].symt # 0 /\ ~ResolvingCycle) =>
                  /\ AggregateSymbols(c[2]) = {entries[c[2]].symt}
                  /\ symbols[entries[c[1]].symt].pointsto = entries[c[2]].symt
                  /\ CycleClosed(c[2]))
    /\ (ResolvingCycle ~> ~ResolvingCycle)

\* a cycle through two aggregates has been resolved, the pointer first
C2_Witness ==
    /\ status = "done"
    /\ \E c \in CyclePairs :
          /\ entries[c[1]].symt # 0
          /\ entries[RootOffset].children[1] = c[1]
          /\ \E t \in Nested({c[2]}, 2) : t # c[2] /\ entries[t].symt # 0

\* the line facts of function symbol i: <<address, line>> in the order added
Facts(i) ==
    [k \in DOMAIN symbols[i].lines |->
        <<add32(symbols[i].address, symbols[i].lines[k].offset), symbols[i].lines[k].line>>]

Covers(i, addr) ==
    /\ ~lt32(addr, symbols[i].address)
    /\ lt32(sub32(addr, symbols[i].address), symbols[i].size)

\* the line section is a program of set_address(A), the special opcode op
\* and end_sequence under a header of the scale and opcode_base given
IsThreeStep(A, op, scale, opcode_base, files) ==
    \E pad \in {<<>>, <<255, 255, 255>>} :
       /\ sections.line = pad \o LineUnit(LineHeader(scale[1], scale[2], scale[3],
                                                     opcode_base, <<>>, files),
                                          ThreeStep(A, op))
       /\ sections.line_mapped

\* the deltas of a special opcode
AddressDelta(op, scale, opcode_base) == ((op - opcode_base) \div scale[3]) * scale[1]

LineDelta(op, scale, opcode_base) == scale[2] + ((op - opcode_base) % scale[3])

\* C3 as claimed: the first fact is at module base + A with line 1, the
\* second at module base + A + d with line 1 + l
C3_FirstFactAtSetAddress ==
    \A A \in LineAddresses, scale \in LineScales, opcode_base \in OpcodeBases :
       \A op \in SpecialOpcodes(opcode_base) :
          (/\ status = "done"
           /\ IsThreeStep(A, op, scale, opcode_base, OneFile)
           /\ Len(symbols) = 2
           /\ Covers(2, add32(module.BaseOfImage, A))
           /\ Covers(2, add32(add32(module.BaseOfImage, A),
                              U32(AddressDelta(op, scale, opcode_base)))))
          => Facts(2) =
                <<<<add32(module.BaseOfImage, A), U32(1)>>,
                  <<add32(add32(module.BaseOfImage, A),
                          U32(AddressDelta(op, scale, opcode_base))),
                    FromSigned32(1 + LineDelta(op, scale, opcode_base))>>>>

\* C3 amended: a program of set_address(A), a special opcode of deltas d and
\* l, and end_sequence, whose file table declares file 1, run with a
\* function covering module base + A + d, adds exactly two facts to that
\* function, both at module base + A + d and of line 1 + l
C3_BothFactsAfterSpecial ==
    \A A \in LineAddresses, scale \in LineScales, opcode_base \in OpcodeBases :
       \A op \in SpecialOpcodes(opcode_base) :
          (/\ status = "done"
           /\ IsThreeStep(A, op, scale, opcode_base, OneFile)
           /\ Len(symbols) = 2
           /\ Covers(2, add32(add32(module.BaseOfImage, A),
                              U32(AddressDelta(op, scale, opcode_base)))))
          => Facts(2) =
                [k \in 1..2 |->
                   <<add32(add32(module.BaseOfImage, A),
                           U32(AddressDelta(op, scale, opcode_base))),
                     FromSigned32(1 + LineDelta(op, scale, opcode_base))>>]

\* set_address(0x2000), address += 4 and line += 1, end_sequence
C3_Witness ==
    /\ status = "done"
    /\ IsThreeStep(W32(0, 8192), 72, <<1, -5, 14>>, 10, OneFile)
    /\ module.BaseOfImage = W32(2052, 32768)
    /\ Len(symbols) = 2
    /\ Facts(2) = <<<<W32(2052, 40964), U32(2)>>, <<W32(2052, 40964), U32(2)>>>>

\* the variables of the root with a location [DW_OP_addr X] and a base type
AddrVariables ==
    {v \in DOMAIN entries :
        /\ \E i \in DOMAIN entries[RootOffset].children :
              entries[RootOffset].children[i] = v
        /\ TagOf(v) = "DW_TAG_variable"
        /\ HasAttr(v, "DW_AT_location")
        /\ FormOf(v, "DW_AT_location") = "DW_FORM_block1"
        /\ RawOf(v, "DW_AT_location")[1] = 5
        /\ RawOf(v, "DW_AT_location")[2] = DW_OP_addr
        /\ TypeTarget(v) # 0
        /\ TagOf(TypeTarget(v)) = "DW_TAG_base_type"}

BaseTypes == {d \in DOMAIN entries : TagOf(d) = "DW_TAG_base_type"}

\* the unit is a root with one base type and variables of it at addresses
AddrUnit ==
    /\ TagOf(RootOffset) = "DW_TAG_compile_unit"
    /\ Cardinality(BaseTypes) = 1
    /\ AddrVariables # {}
    /\ DOMAIN entries = {RootOffset} \cup BaseTypes \cup AddrVariables

WrittenAddress(v) == WordAt(Advance(RawOf(v, "DW_AT_location"), 2))

\* C4: a unit of a base type and variables at [DW_OP_addr X] decodes to one
\* compiland, one base type and one global variable per variable entry, at
\* the module's base + X, of the base type's symbol, static exactly when the
\* entry has no external attribute or one of value zero
C4_GlobalVariable ==
    (status = "done" /\ AddrUnit) =>
        /\ Cardinality(SymbolsOf("SymTagCompiland")) = 1
        /\ Cardinality(SymbolsOf("SymTagBaseType")) = 1
        /\ Cardinality(SymbolsOf("SymTagData")) = Cardinality(AddrVariables)
        /\ Len(symbols) = 2 + Cardinality(AddrVariables)
        /\ \A v \in AddrVariables :
              \E i \in SymbolsOf("SymTagData") :
                 /\ symbols[i].name = WrittenName(v)
                 /\ symbols[i].address = add32(module.BaseOfImage, WrittenAddress(v))
                 /\ symbols[i].type \in SymbolsOf("SymTagBaseType")
                 /\ symbols[i].type = entries[TypeTarget(v)].symt
                 /\ symbols[i].compiland = entries[RootOffset].symt
                 /\ symbols[i].is_static =
                       (~HasAttr(v, "DW_AT_external")
                        \/ WrittenWord(v, "DW_AT_external") = Zero32)

\* the variable comes before its type, the sum base + X wraps, and one
\* variable is external and the other is not
C4_Witness ==
    /\ status = "done"
    /\ AddrUnit
    /\ Cardinality(AddrVariables) = 2
    /\ entries[RootOffset].children[1] \in AddrVariables
    /\ module.BaseOfImage = W32(65535, 61440)
    /\ \E i, j \in SymbolsOf("SymTagData") :
          /\ symbols[i].is_static
          /\ ~symbols[j].is_static
          /\ symbols[i].address = W32(0, 0)

\* the arrays whose last child is a subrange
RangedArrays ==
    {a \in DOMAIN entries :
        /\ TagOf(a) = "DW_TAG_array_type"
        /\ entries[a].abbrev.have_child
        /\ entries[a].children # <<>>
        /\ TagOf(entries[a].children[Len(entries[a].children)]) = "DW_TAG_subrange_type"}

LastRange(a) == entries[a].children[Len(entries[a].children)]

WrittenOrZero(d, at) == IF HasAttr(d, at) THEN WrittenWord(d, at) ELSE Zero32

\* C5: the bounds of an array's symbol are those of its (last) subrange
\* child: the start is the lower bound or 0; the end is start + count when
\* there is a count, whatever the upper bound, else the upper bound or 0
C5_ArrayBounds ==
    \A a \in RangedArrays :
       entries[a].symt # 0 =>
          /\ symbols[entries[a].symt].tag = "SymTagArrayType"
          /\ symbols[entries[a].symt].start = WrittenOrZero(LastRange(a), "DW_AT_lower_bound")
          /\ symbols[entries[a].symt].end =
                IF HasAttr(LastRange(a), "DW_AT_count")
                THEN add32(WrittenOrZero(LastRange(a), "DW_AT_lower_bound"),
                           WrittenWord(LastRange(a), "DW_AT_count"))
                ELSE WrittenOrZero(LastRange(a), "DW_AT_upper_bound")

\* a count of ten over a lower bound of 2^32 - 1 beside an upper bound, after
\* a first subrange of other bounds
C5_Witness ==
    \E a \in RangedArrays :
       /\ entries[a].symt # 0
       /\ Len(entries[a].children) = 2
       /\ HasAttr(LastRange(a), "DW_AT_upper_bound")
       /\ HasAttr(LastRange(a), "DW_AT_count")
       /\ symbols[entries[a].symt].start = W32(65535, 65535)
       /\ symbols[entries[a].symt].end = W32(0, 9)

\* C6: the unsigned reader returns the value whose varint encoding it is
\* given, and its end position is one past the encoding's last byte
C6_UnsignedRoundTrip ==
    (lebKind = "unsigned" /\ lebOut.done) =>
        /\ lebOut.ret = lebValue
        /\ lebOut.end = Len(EncodeULEB(lebValue))
        /\ Advance(lebPtr, lebOut.end) = LebTrailer

C6_Witness ==
    /\ lebKind = "unsigned"
    /\ lebOut.done
    /\ lebValue = W32(65535, 65535)
    /\ lebOut.end = 5

\* C7: the signed reader returns the value whose signed varint encoding it
\* is given; it sign-extends exactly when the last byte has bit 0x40 and
\* fewer than 32 bits were consumed
C7_SignedRoundTrip ==
    (lebKind = "signed" /\ lebOut.done) =>
        LET l == LebLoop(lebPtr, 0, Zero32, 0) IN
        /\ lebOut.ret = lebValue
        /\ lebOut.end = Len(EncodeSLEB(Signed32(lebValue)))
        /\ (lebOut.ret # l.ret) => (l.shift < 32 /\ (l.byte \div 64) % 2 = 1)
        /\ (l.shift >= 32) => lebOut.ret = l.ret

C7_Witness ==
    /\ lebKind = "signed"
    /\ lebOut.done
    /\ lebValue = W32(32768, 0)
    /\ lebOut.end = 5
    /\ Signed32(lebOut.ret) < 0

\* what a caller reads of a decoded attribute: the string or block pointer of
\* a string or block form, the number of every other form
Decoded(attr) ==
    CASE attr.form \in {"DW_FORM_string", "DW_FORM_strp"} -> <<Zero32, attr.ptr>>
      [] attr.form \in {"DW_FORM_block", "DW_FORM_block1", "DW_FORM_block2",
                        "DW_FORM_block4"} -> <<attr.uvalue, attr.ptr>>
      [] OTHER -> <<attr.uvalue, <<>>>>

\* C8: two successive requests for the same attribute of an entry report the
\* same presence and equal decoded values, and a request changes nothing of
\* the entry (its raw positions, its symbol slot) or of the context
C8_FindAttributeIdempotent ==
    [][(attrLast'.n > 1 /\ attrLast'.at = attrLast.at) =>
          /\ attrDi' = attrDi
          /\ attrCtx' = attrCtx
          /\ attrLast'.found = attrLast.found
          /\ attrLast'.found => Decoded(attrLast'.attr) = Decoded(attrLast.attr)]_vars

\* the header the producer wrote at the driver's cursor: its length field
\* (a small number) and its version field
WrittenLength(cursor) == Signed32(WordAt(SectionFrom(sections.debug, cursor)))

WrittenVersion(cursor) ==
    SectionFrom(sections.debug, cursor)[5] + 256 * SectionFrom(sections.debug, cursor)[6]

\* C9: dwarf2_parse_compilation_unit entered for a unit whose version is not
\* 2 returns FALSE at once and leaves the symbols and the entries alone;
\* back in dwarf2_parse the cursor moves to the unit's start + its declared
\* length + 4, and a header that starts there before the end of the section
\* is the next one handed to dwarf2_parse_compilation_unit
C9_OtherVersionSkipped ==
    [][/\ (Running("dwarf2_parse_compilation_unit", "enter")
             /\ WrittenVersion(Top.cursor) # 2)
          => /\ retval' = 0
             /\ symbols' = symbols
             /\ entries' = entries
             /\ status' = "run"
             /\ stack' = Callers
             /\ Callers[1].fn = "dwarf2_parse"
       /\ (Running("dwarf2_parse", "advance") /\ WrittenVersion(Top.cursor) # 2)
          => /\ stack'[1].fn = "dwarf2_parse"
             /\ stack'[1].pc = "loop"
             /\ stack'[1].cursor = Top.cursor + WrittenLength(Top.cursor) + 4
       /\ (Running("dwarf2_parse", "loop") /\ Top.cursor < Len(sections.debug))
          => /\ stack'[1].fn = "dwarf2_parse_compilation_unit"
             /\ stack'[1].pc = "enter"
             /\ stack'[1].cursor = Top.cursor]_vars

\* a unit of another version was skipped and the unit after it gave its
\* symbols
C9_Witness ==
    /\ status = "done"
    /\ Len(sections.debug) > 0
    /\ WrittenVersion(0) # 2
    /\ WrittenLength(0) + 4 < Len(sections.debug)
    /\ WrittenVersion(WrittenLength(0) + 4) = 2
    /\ SymbolsOf("SymTagData") # {}

\* the walker is at an entry whose nonzero code the abbreviation table
\* lacks, or on its way out of the unit after one
MissingCode ==
    /\ Running("dwarf2_read_one_debug_info", "enter")
    /\ HasLeb(SectionFrom(sections.debug, ctx.traverse.data))
    /\ dwarf2_get_leb128_as_unsigned(SectionFrom(sections.debug, ctx.traverse.data)).ret
          \notin DOMAIN ctx.abbrev_table \cup {Zero32}

Aborting ==
    \/ MissingCode
    \/ Running("dwarf2_read_one_debug_info", "child") /\ retval = 0
    \/ Running("dwarf2_parse_compilation_unit", "loaded") /\ Top.child = Unwritten

\* C10: from the entry whose nonzero code has no declaration on, every step
\* returns FALSE to the caller, through dwarf2_parse_compilation_unit to
\* dwarf2_parse: the process does not die, no entry is looked at, and the
\* symbols stay as they are
C10_MissingAbbrevAborts ==
    [][Aborting => /\ status' = "run"
                   /\ retval' = 0
                   /\ stack' = Callers
                   /\ symbols' = symbols]_vars

\* the cursors at which dwarf2_parse finds a unit's header, from cursor c on
\* (each header's length field as the producer wrote it)
RECURSIVE UnitStarts(_)
UnitStarts(c) ==
    IF c < 0 \/ c + CompUnitStreamSize > Len(sections.debug) THEN {}
    ELSE {c} \cup UnitStarts(c + WrittenLength(c) + 4)

\* the code of the first entry of the unit at cursor c (a one-byte varint)
WrittenRootCode(c) == sections.debug[c + CompUnitStreamSize + 1]

WrittenAbbrevOffset(c) == Signed32(WordAt(SectionFrom(sections.debug, c + 6)))

\* the pointer after the attribute/form pairs of a written declaration
RECURSIVE AfterPairs(_)
AfterPairs(p) ==
    IF Len(p) < 2 THEN <<>>
    ELSE IF p[1] = 0 /\ p[2] = 0 THEN Advance(p, 2)
    ELSE AfterPairs(Advance(p, 2))

\* the tag number the declarations written at p give the code, 0 when they
\* have none for it (codes, tags, attributes and forms written are below
\* 128, one byte each)
RECURSIVE WrittenTag(_, _)
WrittenTag(p, code) ==
    IF Len(p) < 3 \/ p[1] = 0 \/ code = 0 THEN 0
    ELSE IF p[1] = code THEN p[2]
    ELSE WrittenTag(AfterPairs(Advance(p, 3)), code)

\* the units of version 2 whose first entry is declared a compile unit
CompileUnits ==
    {c \in UnitStarts(0) :
        /\ WrittenVersion(c) = 2
        /\ WrittenTag(SectionFrom(sections.abbrev, WrittenAbbrevOffset(c)),
                      WrittenRootCode(c))
              = NumberIn(TagNames, "DW_TAG_compile_unit")}

\* C11: when dwarf2_parse has returned, there are as many compiland symbols
\* as the stream has units of version 2 whose root entry is tagged compile
\* unit; and dwarf2_parse_compilation_unit at the test of a root entry of
\* another tag returns FALSE and creates no symbol
C11_OneCompilandPerUnit ==
    /\ [](status = "done" =>
            Cardinality(SymbolsOf("SymTagCompiland")) = Cardinality(CompileUnits))
    /\ [][(Running("dwarf2_parse_compilation_unit", "root")
             /\ TagOf(Top.di) # "DW_TAG_compile_unit")
          => /\ retval' = 0
             /\ symbols' = symbols
             /\ stack' = Callers]_vars

\* the offset a four-byte type reference of entry d holds is no entry's
DanglingType(d) ==
    /\ HasAttr(d, "DW_AT_type")
    /\ FormOf(d, "DW_AT_type") = "DW_FORM_ref4"
    /\ TypeTarget(d) = 0

\* C12: dwarf2_lookup_type for an entry whose type attribute holds an offset
\* at which the unit has no entry returns a null type to its caller: the
\* process goes on, and no symbol is created or changed by the lookup
C12_DanglingTypeIsNull ==
    [][(Running("dwarf2_lookup_type", "enter") /\ DanglingType(Top.di))
          => /\ status' = "run"
             /\ retval' = 0
             /\ stack' = Callers
             /\ symbols' = symbols]_vars

\* the register and frame location instructions
IsRegOp(instr) ==
    \/ instr[1] \in DW_OP_reg0..DW_OP_reg31
    \/ instr[1] \in DW_OP_breg0..DW_OP_breg31
    \/ instr[1] = DW_OP_fbreg

\* the places of the register and frame location instructions
RegOps(program) == {i \in DOMAIN program : IsRegOp(program[i])}

FirstOf(S) == CHOOSE i \in S : \A j \in S : i <= j

LastOf(S) == CHOOSE i \in S : \A j \in S : j <= i

\* the register id DWARF gives an instruction: N for regN and for bregN, the
\* frame marker for fbreg
WrittenRegister(instr) ==
    IF instr[1] = DW_OP_fbreg THEN Wine_DW_frame_register
    ELSE IF instr[1] >= DW_OP_breg0 THEN U32(instr[1] - DW_OP_breg0)
    ELSE U32(instr[1] - DW_OP_reg0)

\* the expression has several register or frame location instructions and
\* no piece, was evaluated, and the caller asked for the register
SeveralRegisters ==
    /\ locOut.stage \in {"located", "mapped"}
    /\ locHasReg
    /\ Cardinality(RegOps(locProgram)) >= 2
    /\ \A i \in DOMAIN locProgram : locProgram[i][1] # DW_OP_piece

RegisterAlone(instr) ==
    dwarf2_compute_location(SymCtx, LocEntry(<<instr>>), "DW_AT_location", Zero32,
                            TRUE, NoAttribute).in_register

C20_BregSameAsReg ==
    \A n \in 0..31 :
       /\ (locOut.stage \in {"located", "mapped"} /\ locHasReg
              /\ locProgram = <<LocReg(n)>>)
          => /\ locOut.ret
             /\ locOut.in_register = U32(n)
       /\ \A k \in LocOffsets :
             (locOut.stage \in {"located", "mapped"} /\ locHasReg
                /\ locProgram = <<LocBreg(n, k)>>)
             => /\ locOut.ret
                /\ WithoutDeref(locOut.in_register) = U32(n)
                /\ HasDeref(locOut.in_register)
                /\ locOut.offset = FromSigned32(k)
                /\ locOut.stage = "mapped" =>
                      /\ locOut.reg = dwarf2_map_register(U32(n))
                      /\ locOut.deref

\* the first instruction of entry d's location block names a register or the
\* frame base
RegisterLocated(d) ==
    /\ HasAttr(d, "DW_AT_location")
    /\ FormOf(d, "DW_AT_location") = "DW_FORM_block1"
    /\ RawOf(d, "DW_AT_location")[1] > 0
    /\ IsRegOp(<<RawOf(d, "DW_AT_location")[2]>>)

\* dwarf2_parse_variable, called by dwarf2_load_one_entry for a child of the
\* root, is about to place a variable whose location is a register
FileScopeRegister ==
    /\ Running("dwarf2_parse_variable", "param_type")
    /\ Top.subpgm.func = 0
    /\ Callers # <<>>
    /\ Callers[1].fn = "dwarf2_parse_compilation_unit"
    /\ RegisterLocated(Top.di)

\* C14: a file-scope variable whose location is a register or relative to
\* one is handled without failure: dwarf2_parse_variable returns to the loop
\* over the root's children, and the process goes on
C14_FileScopeRegisterHandled ==
    [][FileScopeRegister => /\ status' = "run"
                            /\ stack' = Callers]_vars

\* entry d is a subprogram that starts in a thunk range or carries a
\* nonzero declaration attribute
SkippedSubprogram(d) ==
    /\ TagOf(d) = "DW_TAG_subprogram"
    /\ \/ InThunkArea(add32(module.BaseOfImage, WrittenOrZero(d, "DW_AT_low_pc")), ctx.thunks)
       \/ /\ HasAttr(d, "DW_AT_declaration")
          /\ RawOf(d, "DW_AT_declaration")[1] # 0

\* dwarf2_parse_subprogram is at work on such an entry, itself or through
\* the functions it calls for the entry's children
SkippedActive ==
    \E i \in 1..Len(stack) :
        /\ stack[i].fn = "dwarf2_parse_subprogram"
        /\ SkippedSubprogram(stack[i].di)

\* C15: a subprogram in a thunk range or with a nonzero declaration
\* attribute is skipped entirely: while dwarf2_parse_subprogram is at work on
\* it no symbol is created or changed, the process goes on, and the entry's
\* slot is never set
C15_SkippedSubprogram ==
    /\ [][SkippedActive => symbols' = symbols /\ status' = "run"]_vars
    /\ [](\A d \in DOMAIN entries :
             SkippedSubprogram(d) => entries[d].symt = 0)

\* the address register of the interpreter after a step
EmittedAddress == stack'[1].address

\* function i got one more line fact, of the address just emitted
FactAdded(i) ==
    /\ symbols[i].tag = "SymTagFunction"
    /\ Len(symbols'[i].lines) = Len(symbols[i].lines) + 1
    /\ symbols'[i] = [symbols[i] EXCEPT !.lines = symbols'[i].lines]
    /\ SubSeq(symbols'[i].lines, 1, Len(symbols[i].lines)) = symbols[i].lines
    /\ Covers(i, EmittedAddress)
    /\ symbols'[i].lines[Len(symbols'[i].lines)].offset =
          sub32(EmittedAddress, symbols[i].address)

Constructs == Len(symbols') > Len(symbols) /\ stack # <<>>

\* C17: at most one symbol is constructed for an entry: a step that
\* constructs a symbol for an entry finds the entry's slot unset, which a
\* construction for the entry that was completed before would have set
C17_OneSymbolPerEntry ==
    [][(status = "run" /\ Constructs /\ Top.fn \in TypeParsers)
          => entries[Top.di].symt = 0]_vars

\* the tag of the symbol an entry of an aggregate or enumeration tag gets
Built == {"DW_TAG_structure_type", "DW_TAG_class_type", "DW_TAG_union_type",
          "DW_TAG_enumeration_type"}

\* the children of d that are added to its symbol
Parts(d) ==
    {i \in DOMAIN entries[d].children :
        TagOf(entries[d].children[i]) =
           (IF TagOf(d) = "DW_TAG_enumeration_type" THEN "DW_TAG_enumerator"
            ELSE "DW_TAG_member")}

\* the symbol in d's slot is one of d's kind
SlotSymbol(d) ==
    /\ entries[d].symt \in DOMAIN symbols
    /\ symbols[entries[d].symt].tag =
          (IF TagOf(d) = "DW_TAG_enumeration_type" THEN "SymTagEnum" ELSE "SymTagUDT")

\* the symbol in d's slot has all the members or enumerators of d
FullyConstructed(d) ==
    /\ SlotSymbol(d)
    /\ Len(symbols[entries[d].symt].elements) =
          IF entries[d].abbrev.have_child THEN Cardinality(Parts(d)) ELSE 0

BuiltEntries == {d \in DOMAIN entries : TagOf(d) \in Built /\ entries[d].symt # 0}

\* the call that constructs the symbol of d has not returned
UnderConstruction(d) ==
    \E i \in DOMAIN stack :
        /\ stack[i].fn \in {"dwarf2_parse_udt_type", "dwarf2_parse_enumeration_type"}
        /\ stack[i].di = d

Chained == {"DW_TAG_pointer_type", "DW_TAG_typedef", "DW_TAG_const_type",
            "DW_TAG_volatile_type", "DW_TAG_reference_type", "DW_TAG_array_type",
            "DW_TAG_subroutine_type"}

\* the entry n references after d, following the type attribute through
\* entries of the tags above only; 0 when the chain ends before
RECURSIVE ChainFrom(_, _)
ChainFrom(d, n) ==
    IF n = 0 \/ d = 0 THEN d
    ELSE IF TagOf(d) \in Chained THEN ChainFrom(TypeTarget(d), n - 1)
    ELSE 0

\* the type chain of d leads back to d without passing through an aggregate
ChainCycle(d) ==
    /\ TagOf(d) \in Chained
    /\ \E n \in 1..Cardinality(DOMAIN entries) : ChainFrom(d, n) = d

\* C19: the resolution of a unit with a reference cycle that passes through
\* no aggregate takes finitely many steps: the calls do not nest until the
\* call stack is exhausted
C19_ChainCycleTerminates ==
    (\E d \in DOMAIN entries : ChainCycle(d)) => status # "stack overflow"

\* the variables and parameters that are children of a function and located
\* at one DW_OP_fbreg instruction: <<function, child>>
FrameLocals ==
    {c \in (DOMAIN entries) \X (DOMAIN entries) :
        /\ TagOf(c[1]) = "DW_TAG_subprogram"
        /\ entries[c[1]].children = <<c[2]>>
        /\ TagOf(c[2]) \in {"DW_TAG_variable", "DW_TAG_formal_parameter"}
        /\ HasAttr(c[2], "DW_AT_location")
        /\ RawOf(c[2], "DW_AT_location")[2] = DW_OP_fbreg}

\* k of [fbreg, k]
FbregOffset(v) ==
    dwarf2_get_leb128_as_signed(Advance(RawOf(v, "DW_AT_location"), 2)).ret

\* what the frame-base expression of function f says: [reg, offset], reg -1
\* for no register
WrittenFrameBase(f) ==
    LET raw == RawOf(f, "DW_AT_frame_base")
        None == [reg |-> -1, offset |-> Zero32]
    IN  IF ~HasAttr(f, "DW_AT_frame_base") THEN None
        ELSE IF FormOf(f, "DW_AT_frame_base") # "DW_FORM_block1" THEN None
        ELSE IF raw[2] \in DW_OP_reg0..DW_OP_reg31
        THEN [reg |-> raw[2] - DW_OP_reg0, offset |-> Zero32]
        ELSE IF raw[2] \in DW_OP_breg0..DW_OP_breg31
        THEN [reg |-> raw[2] - DW_OP_breg0,
              offset |-> dwarf2_get_leb128_as_signed(Advance(raw, 2)).ret]
        ELSE None

\* the function symbol of a unit with one function
TheFunction == CHOOSE i \in SymbolsOf("SymTagFunction") : TRUE

\* C21: a local at [fbreg, k] of a function whose frame base is register R
\* with offset F is recorded with register R, dereferenced, at offset k + F;
\* when the frame base is absent or names no register, at offset k
C21_FrameRelativeLocal ==
    \A c \in FrameLocals :
       (status = "done" /\ Cardinality(SymbolsOf("SymTagFunction")) = 1)
       => /\ Len(symbols[TheFunction].locals) = 1
          /\ symbols[TheFunction].locals[1].offset =
                add32(FbregOffset(c[2]), WrittenFrameBase(c[1]).offset)
          /\ WrittenFrameBase(c[1]).reg >= 0
                => /\ symbols[TheFunction].locals[1].deref
                   /\ symbols[TheFunction].locals[1].reg =
                         dwarf2_map_register(U32(WrittenFrameBase(c[1]).reg))

\* the value a producer wrote at ptr in a reference form
WrittenReference(form, ptr) ==
    CASE form = "DW_FORM_ref1" -> U32(ptr[1])
      [] form = "DW_FORM_ref2" -> U32(ptr[1] + 256 * ptr[2])
      [] form = "DW_FORM_ref4" -> WordAt(ptr)
      [] OTHER -> dwarf2_get_leb128_as_unsigned(ptr).ret

\* C22: an attribute of a reference form decodes to the unit's base offset
\* plus the value written
C22_ReferencePlusUnitBase ==
    \A i \in DOMAIN attrDi.abbrev.attrs :
       (/\ attrLast.found
        /\ attrLast.at = attrDi.abbrev.attrs[i].attribute
        /\ attrDi.abbrev.attrs[i].form \in {"DW_FORM_ref1", "DW_FORM_ref2",
                                            "DW_FORM_ref4", "DW_FORM_ref_udata"})
       => attrLast.attr.uvalue =
             add32(attrCtx.ref_offset,
                   WrittenReference(attrDi.abbrev.attrs[i].form, attrDi.data[i]))

\* the header of the line program the interpreter is in, as written:
\* min_instruction_length, default is_stmt, line_base, line_range and
\* opcode_base are the five bytes before the table of operand counts
WrittenLineHeader ==
    [insn_size |-> sections.line[Top.opcode_len - 4],
     default_stmt |-> sections.line[Top.opcode_len - 3],
     line_base |-> IF sections.line[Top.opcode_len - 2] >= 128
                   THEN sections.line[Top.opcode_len - 2] - 256
                   ELSE sections.line[Top.opcode_len - 2],
     line_range |-> sections.line[Top.opcode_len - 1],
     opcode_base |-> sections.line[Top.opcode_len]]

\* the interpreter is at an opcode, which it executes without a fault
AtOpcode ==
    /\ Running("dwarf2_parse_line_numbers", "opcode")
    /\ Top.data < Len(sections.line)
    /\ status' = "run"

NextOpcode == sections.line[Top.data + 1]

\* the step emits one fact of the registers after it: the function that
\* covers the address, if there is one and the file is declared, gets it
EmitsOne ==
    IF /\ stack'[1].file.hi = 0
       /\ stack'[1].file.lo \in 1..Len(Top.files)
       /\ \E i \in SymbolsOf("SymTagFunction") : Covers(i, EmittedAddress)
    THEN \E i \in SymbolsOf("SymTagFunction") :
            /\ FactAdded(i)
            /\ symbols'[i].lines[Len(symbols'[i].lines)].line = stack'[1].line
            /\ \A j \in DOMAIN symbols : j # i => symbols'[j] = symbols[j]
    ELSE symbols' = symbols

\* C23: a special opcode adds (delta / line_range) * min_instruction_length
\* to the address and line_base + (delta % line_range) to the line, leaves
\* the file, emits one fact of the new address and line, and the sequence
\* goes on with the next opcode
C23_SpecialOpcode ==
    [][(AtOpcode /\ NextOpcode >= WrittenLineHeader.opcode_base)
       => /\ stack'[1].address =
                add32(Top.address,
                      U32(((NextOpcode - WrittenLineHeader.opcode_base)
                           \div WrittenLineHeader.line_range)
                          * WrittenLineHeader.insn_size))
          /\ stack'[1].line =
                add32(Top.line,
                      FromSigned32(WrittenLineHeader.line_base
                                   + ((NextOpcode - WrittenLineHeader.opcode_base)
                                      % WrittenLineHeader.line_range)))
          /\ stack'[1].file = Top.file
          /\ stack'[1].pc = "opcode"
          /\ stack'[1].data = Top.data + 1
          /\ Tail(stack') = Callers
          /\ EmitsOne]_vars

\* after set_address(0x2000) and the special opcode of address += 4 and
\* line += 1 the function at 0x2000 has the fact of line 2 at offset 4
C23_Witness ==
    /\ Running("dwarf2_parse_line_numbers", "opcode")
    /\ IsThreeStep(W32(0, 8192), 72, <<1, -5, 14>>, 10, OneFile)
    /\ Top.address = add32(module.BaseOfImage, W32(0, 8196))
    /\ Top.line = U32(2)
    /\ Len(symbols) >= 2
    /\ symbols[2].tag = "SymTagFunction"
    /\ symbols[2].address = add32(module.BaseOfImage, W32(0, 8192))
    /\ symbols[2].lines = <<[source |-> Top.files[1], line |-> U32(2),
                             offset |-> W32(0, 4)]>>

\* the bytes of n varints at ptr, -1 when they run out of the section
RECURSIVE VarintBytes(_, _)
VarintBytes(ptr, n) ==
    LET Rest(len) ==
            \* len is the length of the first varint
            LET r == VarintBytes(Advance(ptr, len), n - 1)
            IN  IF r < 0 THEN -1 ELSE len + r
        ends == {i \in DOMAIN ptr : ptr[i] < 128}
    IN  IF n = 0 THEN 0
        ELSE IF ends = {} THEN -1
        ELSE Rest(CHOOSE i \in ends : \A j \in ends : i <= j)

\* the standard opcodes the interpreter knows
HandledOpcodes ==
    {DW_LNS_extended_op, DW_LNS_copy, DW_LNS_advance_pc, DW_LNS_advance_line,
     DW_LNS_set_file, DW_LNS_set_column, DW_LNS_negate_stmt, DW_LNS_set_basic_block,
     DW_LNS_const_add_pc, DW_LNS_fixed_advance_pc}

\* the operand count the header declares for the standard opcode k: the
\* k-th byte of the table
DeclaredOperands(k) == sections.line[Top.opcode_len + k]

\* C24: an unrecognized standard opcode k skips as many varints as the
\* header declares for k, changes no register and emits nothing
C24_UnknownOpcodeSkipsDeclared ==
    [][(/\ AtOpcode
        /\ NextOpcode < WrittenLineHeader.opcode_base
        /\ NextOpcode \notin HandledOpcodes)
       => /\ stack'[1].data =
                Top.data + 1
                + VarintBytes(SectionFrom(sections.line, Top.data + 1),
                              DeclaredOperands(NextOpcode))
          /\ stack' = <<[Top EXCEPT !.data = stack'[1].data]>> \o Callers
          /\ symbols' = symbols]_vars

\* the interpreter is between two sequences, or before the first
BetweenSequences == Running("dwarf2_parse_line_numbers", "sequence")

\* C25: the first opcode of every sequence finds address 0, file 1, line 1,
\* is_stmt as the header says and basic_block false; the interpreter comes
\* to the first opcode of a sequence only from between two sequences, where
\* end_sequence leaves it
C25_SequenceStartsFresh ==
    [][/\ (BetweenSequences /\ status' = "run" /\ stack' # <<>>
           /\ stack'[1].fn = "dwarf2_parse_line_numbers")
          => /\ stack'[1].pc = "opcode"
             /\ stack'[1].data = Top.data
             /\ stack'[1].address = Zero32
             /\ stack'[1].file = U32(1)
             /\ stack'[1].line = U32(1)
             /\ stack'[1].is_stmt = WrittenLineHeader.default_stmt
             /\ stack'[1].basic_block = FALSE
       /\ (AtOpcode /\ NextOpcode = DW_LNS_extended_op
           /\ Top.data + 2 < Len(sections.line)
           /\ sections.line[Top.data + 3] = DW_LNE_end_sequence)
          => stack'[1].pc = "sequence"
       /\ (AtOpcode /\ stack'[1].pc = "sequence")
          => (NextOpcode = DW_LNS_extended_op /\ stack'[1].data > Top.data)]_vars

\* the second sequence of the tour, whose first sequence left address, file
\* and line changed, is at its first opcode with the initial registers
C25_Witness ==
    /\ Running("dwarf2_parse_line_numbers", "opcode")
    /\ Len(sections.line) > Len(Tour)
    /\ SubSeq(sections.line, Len(sections.line) - Len(Tour) + 1, Len(sections.line)) = Tour
    /\ Top.data = Len(sections.line) - 5
    /\ Top.address = Zero32
    /\ Top.file = U32(1)
    /\ Top.line = U32(1)
    /\ Top.basic_block = FALSE

\* the extended opcode at the cursor, after DW_LNS_extended_op and a length
\* of one byte; -1 when the opcode at the cursor is not extended
NextExtended ==
    IF NextOpcode = DW_LNS_extended_op /\ Top.data + 2 < Len(sections.line)
       /\ sections.line[Top.data + 2] < 128
    THEN sections.line[Top.data + 3]
    ELSE -1

\* the opcodes that emit nothing
SilentOpcodes ==
    {DW_LNS_advance_pc, DW_LNS_advance_line, DW_LNS_set_file, DW_LNS_set_column,
     DW_LNS_negate_stmt, DW_LNS_set_basic_block, DW_LNS_const_add_pc,
     DW_LNS_fixed_advance_pc}

\* C26: special opcodes, copy and end_sequence emit one fact of the
\* registers after the opcode; the other opcodes emit nothing; copy and
\* end_sequence leave address, file and line; const_add_pc adds
\* ((255 - opcode_base) / line_range) * min_instruction_length to the
\* address and changes nothing else
C26_EmittingOpcodes ==
    [][AtOpcode
       => /\ (\/ NextOpcode >= WrittenLineHeader.opcode_base
              \/ NextOpcode = DW_LNS_copy
              \/ NextExtended = DW_LNE_end_sequence) => EmitsOne
          /\ (NextOpcode = DW_LNS_copy \/ NextExtended = DW_LNE_end_sequence)
                => /\ stack'[1].address = Top.address
                   /\ stack'[1].file = Top.file
                   /\ stack'[1].line = Top.line
          /\ (\/ NextOpcode \in SilentOpcodes
              \/ NextExtended \in {DW_LNE_set_address, DW_LNE_define_file})
                => symbols' = symbols
          /\ NextOpcode = DW_LNS_const_add_pc
                => stack' = <<[Top EXCEPT
                                 !.data = @ + 1,
                                 !.address =
                                    add32(@, U32(((255 - WrittenLineHeader.opcode_base)
                                                  \div WrittenLineHeader.line_range)
                                                 * WrittenLineHeader.insn_size))]>>
                            \o Callers]_vars

\* the tour is past its copy at 0x2000, which gave the function there a
\* fact, and past its const_add_pc and the opcodes between
C26_Witness ==
    /\ Running("dwarf2_parse_line_numbers", "opcode")
    /\ Len(sections.line) > Len(Tour)
    /\ SubSeq(sections.line, Len(sections.line) - Len(Tour) + 1, Len(sections.line)) = Tour
    /\ NextOpcode = DW_LNS_fixed_advance_pc
    /\ Len(symbols) >= 2
    /\ symbols[2].tag = "SymTagFunction"
    /\ Len(symbols[2].lines) = 1
    /\ symbols[2].lines[1].offset = Zero32
    /\ symbols[2].lines[1].line = U32(1)

\* the members with a type of a declared size, whose location is absent, a
\* constant or the block [DW_OP_plus_uconst off]: <<structure, member>>
PlacedMembers ==
    {c \in (DOMAIN entries) \X (DOMAIN entries) :
        /\ TagOf(c[1]) = "DW_TAG_structure_type"
        /\ entries[c[1]].children = <<c[2]>>
        /\ TagOf(c[2]) = "DW_TAG_member"
        /\ TypeTarget(c[2]) # 0
        /\ TagOf(TypeTarget(c[2])) = "DW_TAG_base_type"
        /\ \/ ~HasAttr(c[2], "DW_AT_data_member_location")
           \/ FormOf(c[2], "DW_AT_data_member_location") = "DW_FORM_data4"
           \/ /\ FormOf(c[2], "DW_AT_data_member_location") = "DW_FORM_block1"
              /\ RawOf(c[2], "DW_AT_data_member_location")[1] = 2
              /\ RawOf(c[2], "DW_AT_data_member_location")[2] = DW_OP_plus_uconst}

\* off of a member
WrittenMemberOffset(m) ==
    IF ~HasAttr(m, "DW_AT_data_member_location") THEN Zero32
    ELSE IF FormOf(m, "DW_AT_data_member_location") = "DW_FORM_data4"
    THEN WrittenWord(m, "DW_AT_data_member_location")
    ELSE U32(RawOf(m, "DW_AT_data_member_location")[3])

\* nbytes of a member: its byte_size, or else the size of its type
WrittenMemberBytes(m) ==
    IF HasAttr(m, "DW_AT_byte_size") THEN WrittenWord(m, "DW_AT_byte_size")
    ELSE U32(RawOf(TypeTarget(m), "DW_AT_byte_size")[1])

\* the bit position claimed for a member
MemberBit(m) ==
    IF HasAttr(m, "DW_AT_bit_offset")
    THEN add32(shl32(WrittenMemberOffset(m), 3),
               sub32(sub32(shl32(WrittenMemberBytes(m), 3),
                           WrittenWord(m, "DW_AT_bit_offset")),
                     WrittenOrZero(m, "DW_AT_bit_size")))
    ELSE shl32(WrittenMemberOffset(m), 3)

\* C27: a member at constant location off is added at bit position
\* (off << 3) + (nbytes * 8 - bit_offset - bit_size) when it has a bit_offset
\* and at off << 3 when it has none, with its bit_size or 0 as size
C27_MemberBitPosition ==
    \A c \in PlacedMembers :
       (status = "done" /\ entries[c[1]].symt # 0)
       => /\ Len(symbols[entries[c[1]].symt].elements) = 1
          /\ symbols[entries[c[1]].symt].elements[1].offset = MemberBit(c[2])
          /\ symbols[entries[c[1]].symt].elements[1].size =
                WrittenOrZero(c[2], "DW_AT_bit_size")

\* a member at byte 4 with bit_offset 5 and bit_size 3 in a type of 4
\* bytes is at bit 32 + (32 - 5 - 3)
C27_Witness ==
    /\ status = "done"
    /\ \E c \in PlacedMembers :
          /\ entries[c[1]].symt # 0
          /\ HasAttr(c[2], "DW_AT_bit_offset")
          /\ ~HasAttr(c[2], "DW_AT_byte_size")
          /\ WrittenWord(c[2], "DW_AT_bit_offset") = U32(5)
          /\ WrittenMemberOffset(c[2]) = U32(4)
          /\ symbols[entries[c[1]].symt].elements[1].offset = U32(56)
          /\ symbols[entries[c[1]].symt].elements[1].size = U32(3)

\* the place of the entry a sibling attribute of node names, or else c
SiblingOf(node, c) ==
    IF \E k \in 1..Len(node.attrs) : node.attrs[k].attribute = "DW_AT_sibling"
    THEN (CHOOSE a \in {node.attrs[k] : k \in 1..Len(node.attrs)} :
             a.attribute = "DW_AT_sibling").ref
    ELSE c

\* the zero-code rule over the places of a producer's list: what is read
\* at place i is no entry (code 0) or the entry i with the list of its
\* children; `next` is the place read after it, `tree` the lists of the
\* entries read
RECURSIVE WalkEntry(_, _), WalkKids(_, _, _, _)
WalkEntry(nodes, i) ==
    LET Of(k) == [di |-> i, next |-> SiblingOf(nodes[i], k.next),
                  tree |-> k.tree @@ (i :> k.kids)]
    IN  IF nodes[i] = PEnd THEN [di |-> 0, next |-> i + 1, tree |-> <<>>]
        ELSE IF nodes[i].have_child THEN Of(WalkKids(nodes, i + 1, <<>>, <<>>))
        ELSE Of([kids |-> <<>>, next |-> i + 1, tree |-> <<>>])

WalkKids(nodes, c, kids, tree) ==
    LET After(w) ==
            IF w.di = 0 THEN [kids |-> kids, next |-> w.next, tree |-> tree]
            ELSE WalkKids(nodes, w.next, Append(kids, c), tree @@ w.tree)
    IN  IF c > Len(nodes) THEN [kids |-> kids, next |-> c, tree |-> tree]
        ELSE After(WalkEntry(nodes, c))

\* the tree walker has returned TRUE for the unit of `nodes`
Walked(nodes) ==
    /\ Running("dwarf2_parse_compilation_unit", "loaded")
    /\ retval = 1
    /\ sections = SectionsOf(<<PUnit(nodes, 2, {})>>)

\* the tree is the one of the zero-code rule, and the cursor is where the
\* rule leaves it
FollowsRule(nodes, w) ==
    /\ Top.child = NodeOffset(nodes, w.di)
    /\ ctx.traverse.data = NodeOffset(nodes, w.next)
    /\ DOMAIN entries = {NodeOffset(nodes, i) : i \in DOMAIN w.tree}
    /\ \A i \in DOMAIN w.tree :
          entries[NodeOffset(nodes, i)].children =
             [k \in 1..Len(w.tree[i]) |-> NodeOffset(nodes, w.tree[i][k])]

\* C28: an entry with the has-children flag gets as children exactly the
\* entries read in order at its level until the first code 0, which is
\* consumed, or the end of the unit; an entry without the flag has no
\* children and the entry read after it is its sibling
C28_ZeroCodeRule ==
    \A nodes \in {KitchenSink} \cup WalkUnits :
       Walked(nodes) => FollowsRule(nodes, WalkEntry(nodes, 1))

\* a structure with a sibling attribute that passes over the entry after
\* its list: the member is its only child, the root's children are the base
\* type, the structure and the pointer, and the typedef is not read
C28_Witness ==
    \E nodes \in WalkUnits :
       /\ Walked(nodes)
       /\ Len(nodes) = 8
       /\ entries[NodeOffset(nodes, 3)].children = <<NodeOffset(nodes, 4)>>
       /\ entries[NodeOffset(nodes, 2)].children = <<>>
       /\ entries[NodeOffset(nodes, 1)].children
             = <<NodeOffset(nodes, 2), NodeOffset(nodes, 3), NodeOffset(nodes, 7)>>
       /\ NodeOffset(nodes, 6) \notin DOMAIN entries

\* the names a symbol holds: its own and those of its members, values,
\* locals and points
NamesOf(s) ==
    (IF "name" \in DOMAIN s THEN {s.name} ELSE {})
    \cup (IF "elements" \in DOMAIN s
          THEN {s.elements[k].name : k \in 1..Len(s.elements)} ELSE {})
    \cup (IF "locals" \in DOMAIN s
          THEN {s.locals[k].name : k \in 1..Len(s.locals)} ELSE {})
    \cup (IF "points" \in DOMAIN s
          THEN {s.points[k].name : k \in 1..Len(s.points)} ELSE {})

\* the synthesized names among the symbols: a prefix and an index
Synthesized(syms) ==
    {n \in UNION {NamesOf(syms[i]) : i \in DOMAIN syms} :
        n.pfx \notin {"", "*", "NULL"}}

\* the entries a step of the function on top of the stack asks the name of
NameAsked ==
    IF "di" \notin DOMAIN Top THEN {}
    ELSE IF "subpgm" \in DOMAIN Top /\ Top.i < Len(entries[Top.di].children)
    THEN {Top.di, entries[Top.di].children[Top.i + 1]}
    ELSE {Top.di} \cup {entries[Top.di].children[k] :
                          k \in 1..Len(entries[Top.di].children)}

\* a step in which the process goes on
GoesOn == status = "run" /\ stack # <<>> /\ ~nameIndex'.trapped

\* what C30 asks of a step
IndexGrows ==
    /\ nameIndex'.index >= nameIndex.index
    /\ \A n \in Synthesized(symbols') \ Synthesized(symbols) :
          /\ n.index < nameIndex'.index
          /\ \A m \in Synthesized(symbols) : m.index # n.index
    /\ nameIndex' # nameIndex => \E d \in NameAsked : ~HasAttr(d, "DW_AT_name")

\* C30: the index of the synthesized names only grows: the counter never
\* goes back, a synthesized name that a step adds to the symbols carries an
\* index below the counter and shares it with no synthesized name already
\* there, and the counter moves only for an entry without a name attribute
C30_IndexNeverReused == [][GoesOn => IndexGrows]_vars

\* the same of the steps that start below INT_MAX - 1
C30_BelowIntMax ==
    [][(GoesOn /\ nameIndex.index >= 0 /\ nameIndex.index < IntMax - 1) => IndexGrows]_vars

\* the unit of a function whose inlined subroutine holds an entry of the
\* kind has been parsed
InlinedParsed(kind, nested) ==
    /\ status = "done"
    /\ sections = SectionsOf(<<PUnit(InlinedUnit(kind, nested), 2, {})>>)

\* the function has a local of the kind with the name the producer wrote
HasLocal(f, dt, str) ==
    \E k \in 1..Len(f.locals) : f.locals[k].kind = dt /\ f.locals[k].name.str = str

\* the function has the label l of the producer, at its address in the image
HasLabel(f) ==
    \E k \in 1..Len(f.points) :
       /\ f.points[k].tag = "SymTagLabel"
       /\ f.points[k].name.str = <<108>>
       /\ f.points[k].address = add32(module.BaseOfImage, W32(0, 8200))

HasBlock == \E i \in DOMAIN symbols : symbols[i].tag = "SymTagBlock"

\* C29: in an inlined subroutine of a function the parameters and variables
\* become parameters and locals of the function, the lexical blocks open
\* scopes and the labels add markers
C29_InlinedDescendantsProcessed ==
    \A kind \in InlinedKids, nested \in BOOLEAN :
       InlinedParsed(kind, nested)
       => CASE kind = "parameter" -> HasLocal(symbols[TheFunction], "DataIsParam", <<112>>)
            [] kind = "variable" -> HasLocal(symbols[TheFunction], "DataIsLocal", <<118>>)
            [] kind = "block" -> HasBlock
            [] OTHER -> HasLabel(symbols[TheFunction])

\* C29, as the code has it: of the entries in an inlined subroutine only
\* the labels and the inlined subroutines are processed.  A label adds a
\* marker to the function; a parameter, a variable or a lexical block adds
\* nothing; the inlined subroutine gets no symbol and its name is nowhere.
C29_OnlyLabelsProcessed ==
    \A kind \in InlinedKids, nested \in BOOLEAN :
       InlinedParsed(kind, nested)
       => /\ symbols[TheFunction].locals = <<>>
          /\ ~HasBlock
          /\ HasLabel(symbols[TheFunction]) <=> kind = "label"
          /\ Len(symbols[TheFunction].points) = IF kind = "label" THEN 1 ELSE 0
          /\ \A d \in DOMAIN entries :
                TagOf(d) = "DW_TAG_inlined_subroutine" => entries[d].symt = 0
          /\ \A n \in UNION {NamesOf(symbols[i]) : i \in DOMAIN symbols} :
                n.str # <<105>>

\* the label in an inlined subroutine of an inlined subroutine is a marker
\* of the function
C29_Witness ==
    /\ InlinedParsed("label", TRUE)
    /\ HasLabel(symbols[TheFunction])
    /\ Cardinality(DOMAIN entries) = 6

\* the length the producer wrote in the header at the cursor of dwarf2_parse
DeclaredLength(cursor) ==
    W32(sections.debug[cursor + 4] * 256 + sections.debug[cursor + 3],
        sections.debug[cursor + 2] * 256 + sections.debug[cursor + 1])

\* dwarf2_parse is back from a unit and about to move its cursor
Advancing == Running("dwarf2_parse", "advance") /\ stack'[1].fn = "dwarf2_parse"

\* C31: on every iteration of the loop of dwarf2_parse the header cursor
\* moves forward, by the declared length plus 4 in 32 bits
C31_CursorAdvances ==
    [][Advancing
         => /\ stack'[1].cursor
                 = Top.cursor + Signed32(add32(DeclaredLength(Top.cursor), U32(4)))
            /\ stack'[1].cursor > Top.cursor]_vars

\* the same of the headers whose length plus 4 is not 0 in 32 bits
C31_UnwrappedAdvances ==
    [][(Advancing /\ add32(DeclaredLength(Top.cursor), U32(4)) # Zero32)
         => /\ stack'[1].cursor
                 = Top.cursor + Signed32(add32(DeclaredLength(Top.cursor), U32(4)))
            /\ stack'[1].cursor > Top.cursor]_vars

\* the offset of the unit the interpreter is in, and the offset just after
\* the unit: the four bytes of the length and the length the producer wrote
LineUnitStart == Top.opcode_len - LineHeaderSize

LineUnitEnd ==
    LineUnitStart + 4
    + (sections.line[LineUnitStart + 2] * 256 + sections.line[LineUnitStart + 1])

InInterpreter(pc) == Running("dwarf2_parse_line_numbers", pc)

\* C33: the interpreter is never at an opcode at or after the end of its
\* unit
C33_OpcodeInsideUnit == InInterpreter("opcode") => Top.data < LineUnitEnd

\* the same of the units that end with an end_sequence
C33_EndedInsideUnit ==
    (InInterpreter("opcode")
     /\ SubSeq(sections.line, LineUnitEnd - 2, LineUnitEnd) = EndSequence)
    => Top.data < LineUnitEnd

\* C34: the interpreter's end boundary is just after the unit, and it
\* leaves the loop over the sequences only at or after it
C34_EndAfterLengthField ==
    [][InInterpreter("sequence")
         => /\ Top.end_data = LineUnitEnd
            /\ stack' = Callers => Top.data >= LineUnitEnd]_vars

\* what the code has for C34: the boundary is four bytes before the end of
\* the unit
C34_EndFourShort ==
    InInterpreter("sequence") => Top.end_data = LineUnitEnd - 4

\* C35: after an extended opcode the cursor is L bytes after the length
\* varint, L the value of the varint (one byte in the programs tried)
C35_ExtendedSkipsLength ==
    [][(AtOpcode /\ NextExtended # -1)
         => stack'[1].data = Top.data + 2 + sections.line[Top.data + 2]]_vars

\* the same of the extended opcodes the decoder knows
C35_KnownExtended ==
    [][(AtOpcode
        /\ NextExtended \in {DW_LNE_end_sequence, DW_LNE_set_address, DW_LNE_define_file})
         => stack'[1].data = Top.data + 2 + sections.line[Top.data + 2]]_vars

\* the entries the tree walker has read, each with the place of one of its
\* attributes: <<entry, i>>
WalkedAttributes ==
    IF sections.debug = <<>> THEN {}
    ELSE {a \in (DOMAIN entries) \X (1..20) : a[2] <= Len(entries[a[1]].data)}

FormAt(a) == entries[a[1]].abbrev.attrs[a[2]].form

\* the walker's step over the attribute is what the decoder reads of it, and
\* the next attribute's raw position is that far from this one's
StepIsExtent(a) ==
    /\ dwarf2_swallow_attribute(entries[a[1]].data[a[2]], FormAt(a), ctx.word_size)
          = FindExtent(ctx, FormAt(a), entries[a[1]].data[a[2]])
    /\ a[2] < Len(entries[a[1]].data)
       => Len(entries[a[1]].data[a[2]]) - Len(entries[a[1]].data[a[2] + 1])
             = FindExtent(ctx, FormAt(a), entries[a[1]].data[a[2]])

\* C38: for every form the tree walker handles, the bytes
\* dwarf2_swallow_attribute steps over are the bytes dwarf2_find_attribute
\* reads or exposes at the raw position, so the raw position of attribute
\* i + 1 is the first byte after the value of attribute i
C38_SwallowMatchesFind == \A a \in WalkedAttributes : StepIsExtent(a)

\* the same of the forms but the two of 64 bits
C38_But64Bits ==
    \A a \in WalkedAttributes :
       FormAt(a) \notin {"DW_FORM_data8", "DW_FORM_ref8"} => StepIsExtent(a)

\* the raw positions follow each other by the walker's steps, the forms of
\* 64 bits included
C38_PositionsFollow ==
    \A a \in WalkedAttributes :
       a[2] < Len(entries[a[1]].data)
       => Len(entries[a[1]].data[a[2]]) - Len(entries[a[1]].data[a[2] + 1])
             = dwarf2_swallow_attribute(entries[a[1]].data[a[2]], FormAt(a),
                                        ctx.word_size)

\* dwarf2_read_one_debug_info is at work
Walking == status = "run" /\ stack # <<>> /\ Top.fn = "dwarf2_read_one_debug_info"

\* the entry has a sibling attribute
HasSibling(d) ==
    \E k \in 1..Len(entries[d].abbrev.attrs) :
       entries[d].abbrev.attrs[k].attribute = "DW_AT_sibling"

\* the step returns an entry with a sibling attribute through pdi
ReturnsSibling ==
    /\ Walking
    /\ stack' = <<[Callers[1] EXCEPT !.child = stack'[1].child]>> \o Tail(Callers)
    /\ stack'[1].child \in DOMAIN entries'
    /\ \E k \in 1..Len(entries'[stack'[1].child].abbrev.attrs) :
          entries'[stack'[1].child].abbrev.attrs[k].attribute = "DW_AT_sibling"

InUnit(cursor) == Signed32(ctx.ref_offset) <= cursor /\ cursor < ctx.traverse.end_data

\* no step of the walker moves the cursor backward
C32_CursorForward == [][Walking => ctx'.traverse.data >= ctx.traverse.data]_vars

\* an entry with a sibling attribute leaves the cursor inside the unit
C32_SiblingInUnit == [][ReturnsSibling => InUnit(ctx'.traverse.data)]_vars

\* C32: while the tree is built the cursor never moves backward, also when
\* a sibling attribute names a place at or before its entry, and after a
\* sibling jump the cursor is in the unit's range [start, end)
C32_WalkerBounded ==
    [][/\ Walking => ctx'.traverse.data >= ctx.traverse.data
       /\ ReturnsSibling => InUnit(ctx'.traverse.data)]_vars

\* the entry at a place that is read again is refused, and with it the unit
C32_ReadAgainRefused ==
    [][/\ Running("dwarf2_read_one_debug_info", "enter")
       /\ ctx.traverse.data \in DOMAIN entries
       /\ HasLeb(SectionFrom(sections.debug, ctx.traverse.data))
       /\ dwarf2_get_leb128_as_unsigned(SectionFrom(sections.debug,
                                                   ctx.traverse.data)).ret # Zero32
       => retval' = 0 /\ entries' = entries]_vars

C32_ReadAgain ==
    /\ Running("dwarf2_read_one_debug_info", "enter")
    /\ ctx.traverse.data \in DOMAIN entries

\* the evaluator has returned
Located == locOut.stage \in {"located", "mapped"}

\* the pushes of the expression
Pushes ==
    Cardinality({i \in 1..Len(locProgram) :
                    locProgram[i][1] \notin {DW_OP_piece, DW_OP_plus_uconst, 6}
                    /\ ~(locProgram[i][1] >= DW_OP_reg0 /\ locProgram[i][1] <= DW_OP_reg31)})

\* C36: no location expression makes the evaluator store at loc[64] or
\* beyond, however many pushes it holds
C36_StackInBounds == Located => ~locOut.overrun

\* expressions of fewer pushes than 64 stay in the array, and with 63 of them
\* the result is the last one pushed
C36_ShallowInBounds ==
    Located /\ Pushes < LocSlots
    => /\ ~locOut.overrun
       /\ locProgram \in LocDeep /\ locProgram[1] = <<DW_OP_const1u, 7>>
          => locOut.ret /\ locOut.written /\ locOut.offset = U32(7)

C36_Deep == Located /\ Pushes = LocSlots - 1

\* C37: when dwarf2_compute_location reports success it has assigned
\* *offset, also for an expression with an opcode it does not handle
C37_SuccessMeansWritten == Located /\ locOut.ret => locOut.written

\* for the expressions of handled opcodes only, within the array
C37_HandledWritten ==
    Located /\ locProgram \notin LocUnhandled /\ ~locOut.overrun
    => locOut.ret /\ locOut.written

\* after an unhandled opcode nothing is assigned, and the value returned is
\* whether the top of the stack is nonzero
C37_UnhandledReturnsTop ==
    Located /\ locProgram \in LocUnhandled
    => /\ ~locOut.written
       /\ locOut.ret <=> locProgram \in {<<<<DW_OP_const1u, 7>>, LocDeref>>,
                                         <<LocFbreg(8), LocDeref>>}

\* dwarf2_parse has returned
Parsed == status = "done" /\ stack = <<>>

\* C39: when dwarf2_parse returns it returns TRUE and the module is described
\* with line numbers, global symbols, type info and source indexed set,
\* whatever the stream held and whatever its units returned
C39_AlwaysTrueAndFlagged ==
    Parsed
    => /\ retval = 1
       /\ module.LineNumbers /\ module.GlobalSymbols /\ module.TypeInfo
       /\ module.SourceIndexed
       /\ module = Described(module)

\* a stream of two units of versions the parser refuses: nothing was loaded
C39_Witness ==
    /\ Parsed
    /\ sections = SectionsOf(<<PUnit(Plain, 3, {}), PUnit(Nested1, 1, {})>>)
    /\ symbols = <<>>
    /\ retval = 1
    /\ module.TypeInfo

\* the empty stream
C39_Empty == Parsed /\ sections.debug = <<>> /\ retval = 1 /\ module.LineNumbers

\* a stream whose units were loaded
C39_Loaded ==
    /\ Parsed
    /\ sections = SectionsOf(<<PUnit(KitchenSink, 2, {}), PUnit(Plain, 2, {})>>)
    /\ symbols # <<>>
====
